---- MODULE Spec2Model ----
(***************************************************************************)
(* A model of the DX7 voice engine of tv7-js: the packed-voice and bank    *)
(* decoder (fm/patch.js), the sample generator (generateSamples), the      *)
(* gated envelope, the LFO, the operator chain renderer, the sine lookups,  *)
(* the algorithm compiler, the voice and pow2Fast.                          *)
(*                                                                         *)
(* Bytes are integers 0..255, JavaScript arrays are sequences (index i of  *)
(* the source is index i+1 here), and the bit operations of the source on  *)
(* bytes are written with % and \div.                                      *)
(***************************************************************************)
EXTENDS Integers, Sequences, FiniteSets, TLC

VARIABLES
    \* ---- Patch.unpack / Patch.fromBytes
    voiceIn,     \* the raw voice bytes the caller holds
    patch,       \* the fields of one Patch object
    patchErr,    \* the error the last call on it raised, or "none"
    made,        \* what the last Patch.fromBytes returned (NoPatch if it threw)
    lastCall,    \* the last call: its function and its data argument
    \* ---- new PatchBank(data)
    bankIn,      \* the raw bank bytes handed to the constructor
    bank,        \* the constructed bank (NoBank before, and if it threw)
    bankErr,     \* the error the constructor raised, or "none"
    bankPc,      \* "new" before the constructor ran, "done" after
    \* ---- generateSamples(patch, midiNote, sampleRate, durationMs)
    sampleRate,  \* argument: samples per second
    durationMs,  \* argument: gate-on time in milliseconds
    voiceSignal, \* what the voice renders for this patch and note
    output,      \* the output array
    rendered,    \* every sample pushed to output so far (history)
    remaining,   \* gate-on samples still to render
    consecutiveSilentSamples,
    gate,        \* parameters.gate
    calls,       \* the lfo.step and voice.renderTemp calls made so far
    genPc,       \* "gateOn", "release" (the two loops), "returned", "idle"
    stop,        \* why the release loop ended: "silence", "limit" or "none"
    \* ---- one Envelope (fm/envelope.js)
    env,         \* its fields: stage, phase, start, increment, level, ...
    envGate,     \* the gate passed to the last renderScaled call: "on" or
                 \* "off", and "none" before the first call
    envOut,      \* the value the last renderScaled call returned
    envHeld,     \* "free", or the gate ("on"/"off") every call from now on passes
    \* ---- one Lfo (fm/lfo.js)
    lfo,         \* its fields: phase, frequency, delayPhase, delayIncrement, ...
    lfoCall,     \* the last call made on it: its method and argument
    \* ---- a chain of operators and its renderer (fm/operator.js)
    ops,         \* the operators: phase (u32) and amplitude of each
    fbState,     \* the two-sample feedback history
    chainOut,    \* the out buffer of the last call
    chainCall,   \* the last renderOperators call: its parameters
    phaseRef,    \* per operator, the unwrapped sum of its phase increments
    chainBlocks, \* number of blocks rendered
    chainTrace,  \* what the last call read and computed on its way: the
                 \* amplitudes and history it started from, the amplitude
                 \* each sample used, each sample's modulation seed and
                 \* each output of the feedback source operator
    \* ---- sinePm and sine (stmlib/dsp.js)
    sinePhase,   \* argument: a 32-bit phase
    sinePmIn,    \* argument: the modulation pm
    sinePmOut,   \* what sinePm(phase, pm) returned, NoValue before the call
    sineOut,     \* what sine(phase / 2^32) returned, NoValue before the call
    \* ---- Algorithms.compile and the dispatch loop of Voice.renderInternal
    algorithm,   \* the algorithm compiled and rendered
    renderCalls, \* renderCalls[algorithm]: one RenderCall per operator
    compileAt,   \* i of compile's loop; NUM_OPERATORS once it returned
    dispatchAt,  \* i of the dispatch loop; -1 before it starts
    visited,     \* the calls the dispatch loop made, in order
    \* ---- one Voice (fm/voice.js)
    voice,       \* its fields: patch, dirty, gate, the cached quantities, ...
    voiceCall,   \* the last call on it: its method and what it returned
    voicePc,     \* "constructing" until the constructor's setup(), then "ready"
    \* ---- pow2Fast (fm/dx_units.js)
    powX,        \* argument x, in sixteenths
    powOrder,    \* argument order
    powOut,      \* what pow2Fast(x, order) returned, NoValue before the call
    \* ---- the conversions of fm/dx_units.js called on their own
    unitsCall,   \* the last conversion called: its name and argument
    unitsOut,    \* the numbers it returned, as a sequence
    \* ---- two runs of one Lfo fed the same calls
    lfoA,        \* the Lfo of the first run
    lfoB,        \* the Lfo of the second run
    twinCall     \* the last call made on both

patchVars == <<voiceIn, patch, patchErr, made, lastCall>>
bankVars == <<bankIn, bank, bankErr, bankPc>>
genArgs == <<sampleRate, durationMs, voiceSignal>>
genVars == <<genArgs, output, rendered, remaining, consecutiveSilentSamples,
             gate, calls, genPc, stop>>
envVars == <<env, envGate, envOut, envHeld>>
lfoVars == <<lfo, lfoCall>>
chainVars == <<ops, fbState, chainOut, chainCall, phaseRef, chainBlocks,
               chainTrace>>
sineVars == <<sinePhase, sinePmIn, sinePmOut, sineOut>>
algoVars == <<algorithm, renderCalls, compileAt, dispatchAt, visited>>
voiceVars == <<voice, voiceCall, voicePc>>
powVars == <<powX, powOrder, powOut>>
unitsVars == <<unitsCall, unitsOut>>
twinVars == <<lfoA, lfoB, twinCall>>
dspVars == <<lfoVars, chainVars, sineVars, algoVars, voiceVars, powVars, unitsVars,
      twinVars>>
vars == <<patchVars, bankVars, genVars, envVars, dspVars>>

-----------------------------------------------------------------------------
(* JavaScript primitives used by the decoder                                *)

Byte == 0..255

Min(a, b) == IF a < b THEN a ELSE b

Max(a, b) == IF a > b THEN a ELSE b

\* data[i]: an index outside the array reads undefined, which the bit
\* operators (&, >>) that every read of the decoder goes through coerce to 0.
ByteAt(d, i) == IF i >= 0 /\ i < Len(d) THEN d[i + 1] ELSE 0

\* b & mask, for the masks 2^k - 1 the decoder uses.
And(b, mask) == b % (mask + 1)

\* b >> n on a non-negative value.
Shr(b, n) == b \div (2 ^ n)

\* data.slice(a): from index a (clamped) to the end.
SliceFrom(d, a) == SubSeq(d, Min(a, Len(d)) + 1, Len(d))

\* data.slice(a, b): indices a (inclusive) to b (exclusive), both clamped.
Slice(d, a, b) == SubSeq(d, Min(a, Len(d)) + 1, Min(b, Len(d)))

-----------------------------------------------------------------------------
(* fm/patch.js                                                              *)

SYX_SIZE == 128

BANK_PATCHES == 32

HEADER_BANK == <<240, 67, 0, 9, 32, 0>>

BULK_FULL_SYSEX_SIZE == 4104

\* The value modelling "no patch was returned" and "no bank was constructed".
NoPatch == [none |-> "patch"]

NoBank == [none |-> "bank"]

\* new OpEnvelope()
NewOpEnvelope == [rate |-> <<99, 99, 99, 99>>, level |-> <<99, 99, 99, 0>>]

\* new KeyboardScaling()
NewKeyboardScaling ==
    [ breakPoint |-> 0, leftDepth |-> 0, rightDepth |-> 0,
      leftCurve |-> 0, rightCurve |-> 0 ]

\* new Operator()
NewOperator ==
    [ envelope |-> NewOpEnvelope, keyboardScaling |-> NewKeyboardScaling,
      rateScaling |-> 0, ampModSensitivity |-> 0, velocitySensitivity |-> 0,
      level |-> 0, mode |-> 0, coarse |-> 0, fine |-> 0, detune |-> 0 ]

\* new PitchEnvelope()
NewPitchEnvelope == [rate |-> <<99, 99, 99, 99>>, level |-> <<50, 50, 50, 50>>]

\* new ModulationParameters()
NewModulations ==
    [ rate |-> 0, delay |-> 0, pitchModDepth |-> 0, ampModDepth |-> 0,
      resetPhase |-> 0, waveform |-> 0, pitchModSensitivity |-> 0 ]

\* new Patch(): the name is ten spaces (character code 32).
NewPatch ==
    [ op |-> [i \in 1..6 |-> NewOperator],
      pitchEnvelope |-> NewPitchEnvelope,
      algorithm |-> 31, feedback |-> 0, resetPhase |-> 0,
      modulations |-> NewModulations,
      transpose |-> 0,
      name |-> [i \in 1..10 |-> 32],
      activeOperators |-> 63 ]

\* UnpackOperator with the detune left unclamped.
UnpackOperatorUnclamped(opData) ==
    [ envelope |->
        [ rate |-> [j \in 1..4 |-> Min(And(ByteAt(opData, j - 1), 127), 99)],
          level |-> [j \in 1..4 |-> Min(And(ByteAt(opData, 4 + j - 1), 127), 99)] ],
      keyboardScaling |->
        [ breakPoint |-> Min(And(ByteAt(opData, 8), 127), 99),
          leftDepth |-> Min(And(ByteAt(opData, 9), 127), 99),
          rightDepth |-> Min(And(ByteAt(opData, 10), 127), 99),
          leftCurve |-> And(ByteAt(opData, 11), 3),
          rightCurve |-> And(Shr(ByteAt(opData, 11), 2), 3) ],
      rateScaling |-> And(ByteAt(opData, 12), 7),
      ampModSensitivity |-> And(ByteAt(opData, 13), 3),
      velocitySensitivity |-> And(Shr(ByteAt(opData, 13), 2), 7),
      level |-> Min(And(ByteAt(opData, 14), 127), 99),
      mode |-> And(ByteAt(opData, 15), 1),
      coarse |-> And(Shr(ByteAt(opData, 15), 1), 31),
      fine |-> Min(And(ByteAt(opData, 16), 127), 99),
      detune |-> And(Shr(ByteAt(opData, 12), 3), 15) ]

\* The body of the operator loop of unpack for opData = data.slice(i * 17).
UnpackOperator(opData) ==
    [ envelope |->
        [ rate |-> [j \in 1..4 |-> Min(And(ByteAt(opData, j - 1), 127), 99)],
          level |-> [j \in 1..4 |-> Min(And(ByteAt(opData, 4 + j - 1), 127), 99)] ],
      keyboardScaling |->
        [ breakPoint |-> Min(And(ByteAt(opData, 8), 127), 99),
          leftDepth |-> Min(And(ByteAt(opData, 9), 127), 99),
          rightDepth |-> Min(And(ByteAt(opData, 10), 127), 99),
          leftCurve |-> And(ByteAt(opData, 11), 3),
          rightCurve |-> And(Shr(ByteAt(opData, 11), 2), 3) ],
      rateScaling |-> And(ByteAt(opData, 12), 7),
      ampModSensitivity |-> And(ByteAt(opData, 13), 3),
      velocitySensitivity |-> And(Shr(ByteAt(opData, 13), 2), 7),
      level |-> Min(And(ByteAt(opData, 14), 127), 99),
      mode |-> And(ByteAt(opData, 15), 1),
      coarse |-> And(Shr(ByteAt(opData, 15), 1), 31),
      fine |-> Min(And(ByteAt(opData, 16), 127), 99),
      detune |-> Min(And(Shr(ByteAt(opData, 12), 3), 15), 14) ]

\* The modulation parameters, bytes 112..116.
UnpackModulations(data) ==
    [ rate |-> Min(And(ByteAt(data, 112), 127), 99),
      delay |-> Min(And(ByteAt(data, 113), 127), 99),
      pitchModDepth |-> Min(And(ByteAt(data, 114), 127), 99),
      ampModDepth |-> Min(And(ByteAt(data, 115), 127), 99),
      resetPhase |-> And(ByteAt(data, 116), 1),
      waveform |-> Min(And(Shr(ByteAt(data, 116), 1), 7), 5),
      pitchModSensitivity |-> Shr(ByteAt(data, 116), 4) ]

\* UnpackGlobals with the transpose left unclamped.
UnpackGlobalsUnclamped(data) ==
    [ algorithm |-> And(ByteAt(data, 110), 31),
      feedback |-> And(ByteAt(data, 111), 7),
      resetPhase |-> And(Shr(ByteAt(data, 111), 3), 1),
      transpose |-> And(ByteAt(data, 117), 127) ]

\* algorithm, feedback, resetPhase and transpose, bytes 110, 111 and 117.
UnpackGlobals(data) ==
    [ algorithm |-> And(ByteAt(data, 110), 31),
      feedback |-> And(ByteAt(data, 111), 7),
      resetPhase |-> And(Shr(ByteAt(data, 111), 3), 1),
      transpose |-> Min(And(ByteAt(data, 117), 127), 48) ]

\* The assignments of unpack after its length check, on any data.
UnpackFields(data) ==
    LET g == UnpackGlobals(data) IN
    [ op |-> [i \in 1..6 |-> UnpackOperator(SliceFrom(data, (i - 1) * 17))],
      pitchEnvelope |->
        [ rate |-> [j \in 1..4 |-> Min(And(ByteAt(data, 102 + j - 1), 127), 99)],
          level |-> [j \in 1..4 |-> Min(And(ByteAt(data, 106 + j - 1), 127), 99)] ],
      algorithm |-> g.algorithm, feedback |-> g.feedback,
      resetPhase |-> g.resetPhase,
      modulations |-> UnpackModulations(data),
      transpose |-> g.transpose,
      name |-> [i \in 1..10 |-> And(ByteAt(data, 118 + i - 1), 127)],
      activeOperators |-> 63 ]

\* UnpackResult with the length check made after the assignments.
UnpackResultLate(p, data) ==
    [ err |-> IF Len(data) # SYX_SIZE THEN "BadVoiceLength" ELSE "none",
      fields |-> UnpackFields(data) ]

\* patch.unpack(data) on a patch holding the fields p: the error raised and
\* the fields afterwards.
UnpackResult(p, data) ==
    IF Len(data) # SYX_SIZE
    THEN [err |-> "BadVoiceLength", fields |-> p]
    ELSE [err |-> "none", fields |-> UnpackFields(data)]

\* Patch.fromBytes(data): a new Patch, unpacked; nothing is returned if
\* unpack throws.
FromBytesResult(data) ==
    LET r == UnpackResult(NewPatch, data) IN
    [err |-> r.err, patch |-> IF r.err = "none" THEN r.fields ELSE NoPatch]

\* The characters String.prototype.trim removes, among the codes 0..127.
IsWhiteSpace(c) == c \in {9, 10, 11, 12, 13, 32}

\* s.trim() on a sequence of character codes.
Trim(s) ==
    LET keep == {i \in 1..Len(s) : ~IsWhiteSpace(s[i])} IN
    IF keep = {} THEN <<>>
    ELSE LET lo == CHOOSE i \in keep : \A j \in keep : i <= j
             hi == CHOOSE i \in keep : \A j \in keep : i >= j
         IN SubSeq(s, lo, hi)

\* patch.getName(): the ten characters joined, then trimmed.
GetName(p) == Trim(p.name)

-----------------------------------------------------------------------------
(* Callers of Patch.unpack and Patch.fromBytes                              *)

\* The voices the caller holds: byte i is (i + s) mod 256, so that every
\* byte position takes every value 0..255 and neighbouring positions differ.
RampVoice(s) == [i \in 1..SYX_SIZE |-> (i - 1 + s) % 256]

VoiceInputs == {RampVoice(s) : s \in Byte}

\* The arguments a call passes, derived from the voice the caller holds: the
\* voice itself, and the voice cut short or extended by a byte.
CallData(v) == {v, SubSeq(v, 1, Len(v) - 1), Append(v, 0)}

-----------------------------------------------------------------------------
(* fm/envelope.js: the generic Envelope                                     *)

\* Fixed-point resolution: a phase of 1.0 is PhaseOne, a level of 1.0 is
\* LevelOne. Products are rounded down to this grid.
PhaseOne == 1000

LevelOne == 16

\* Both envelopes of the engine are built with new Envelope(4, ...).
NUM_STAGES == 4

\* PREVIOUS_LEVEL = -100.0
PREVIOUS_LEVEL == -100 * LevelOne

\* The threshold 6.7 of the ascending reshape.
ReshapeFloor == (67 * LevelOne) \div 10

\* The fields constructor and init(scale) set: last stage, phase 1.0, start
\* 0.0, increments 0.001, levels 1 / (1 << i) with the last 0.
NewEnvelope(reshape, scale) ==
    [ stage |-> NUM_STAGES - 1,
      phase |-> PhaseOne,
      start |-> 0,
      increment |-> [i \in 1..NUM_STAGES |-> PhaseOne \div 1000],
      level |-> [i \in 1..NUM_STAGES |->
                    IF i = NUM_STAGES THEN 0 ELSE LevelOne \div (2 ^ (i - 1))],
      reshapeAscending |-> reshape,
      scale |-> scale ]

\* valueAt with the reshape of an ascending segment bending the phase
\* only, its two ends left below the threshold.
ValueAtUnclamped(e, stage, phase, startLevel) ==
    LET from == IF startLevel = PREVIOUS_LEVEL
                THEN e.level[((stage + NUM_STAGES - 1) % NUM_STAGES) + 1]
                ELSE startLevel
        to == e.level[stage + 1]
        ph == IF e.reshapeAscending /\ from < to
              THEN (phase * (5 * PhaseOne - 2 * phase)) \div (3 * PhaseOne)
              ELSE phase
    IN ((ph * (to - from)) \div PhaseOne) + from

\* valueAt(stage, phase, startLevel); stages are numbered from 0.
ValueAt(e, stage, phase, startLevel) ==
    LET from0 == IF startLevel = PREVIOUS_LEVEL
                 THEN e.level[((stage + NUM_STAGES - 1) % NUM_STAGES) + 1]
                 ELSE startLevel
        to0 == e.level[stage + 1]
        reshape == e.reshapeAscending /\ from0 < to0
        from == IF reshape THEN Max(from0, ReshapeFloor) ELSE from0
        to == IF reshape THEN Max(to0, ReshapeFloor) ELSE to0
        \* phase *= (2.5 - phase) * 0.666667
        ph == IF reshape
              THEN (phase * (5 * PhaseOne - 2 * phase)) \div (3 * PhaseOne)
              ELSE phase
    IN ((ph * (to - from)) \div PhaseOne) + from

\* value()
Value(e) == ValueAt(e, e.stage, e.phase, e.start)

\* GateStage with the trigger taken in the last stage whatever the gate.
GateStageAnyGate(e, g) ==
    IF e.stage = NUM_STAGES - 1
    THEN [e EXCEPT !.start = Value(e), !.stage = 0, !.phase = 0]
    ELSE IF ~g
         THEN [e EXCEPT !.start = Value(e), !.stage = NUM_STAGES - 1, !.phase = 0]
         ELSE e

\* The gate branch of renderScaled: trigger on gate in the last stage,
\* release on no gate in any other stage.
GateStage(e, g) ==
    IF g
    THEN IF e.stage = NUM_STAGES - 1
         THEN [e EXCEPT !.start = Value(e), !.stage = 0, !.phase = 0]
         ELSE e
    ELSE IF e.stage # NUM_STAGES - 1
         THEN [e EXCEPT !.start = Value(e), !.stage = NUM_STAGES - 1, !.phase = 0]
         ELSE e

\* Advance with the sustain stage N-2 moving on to the next stage like the
\* stages before it.
AdvancePastSustain(e, rate, adScale, releaseScale) ==
    LET scaleFactor == IF e.stage = NUM_STAGES - 1 THEN releaseScale ELSE adScale
        phase == e.phase + e.increment[e.stage + 1] * rate * scaleFactor
    IN IF phase >= PhaseOne
       THEN IF e.stage >= NUM_STAGES - 1
            THEN [e EXCEPT !.phase = PhaseOne, !.start = PREVIOUS_LEVEL]
            ELSE [e EXCEPT !.phase = 0, !.stage = e.stage + 1,
                           !.start = PREVIOUS_LEVEL]
       ELSE [e EXCEPT !.phase = phase]

\* Advance with the phase of a held stage left where the addition put it.
AdvanceUnsaturated(e, rate, adScale, releaseScale) ==
    LET scaleFactor == IF e.stage = NUM_STAGES - 1 THEN releaseScale ELSE adScale
        phase == e.phase + e.increment[e.stage + 1] * rate * scaleFactor
    IN IF phase >= PhaseOne
       THEN IF e.stage >= NUM_STAGES - 2
            THEN [e EXCEPT !.phase = phase, !.start = PREVIOUS_LEVEL]
            ELSE [e EXCEPT !.phase = 0, !.stage = e.stage + 1,
                           !.start = PREVIOUS_LEVEL]
       ELSE [e EXCEPT !.phase = phase]

\* The phase advance of renderScaled and its end-of-stage handling.
Advance(e, rate, adScale, releaseScale) ==
    LET scaleFactor == IF e.stage = NUM_STAGES - 1 THEN releaseScale ELSE adScale
        phase == e.phase + e.increment[e.stage + 1] * rate * scaleFactor
    IN IF phase >= PhaseOne
       THEN IF e.stage >= NUM_STAGES - 2
            THEN [e EXCEPT !.phase = PhaseOne, !.start = PREVIOUS_LEVEL]
            ELSE [e EXCEPT !.phase = 0, !.stage = e.stage + 1,
                           !.start = PREVIOUS_LEVEL]
       ELSE [e EXCEPT !.phase = phase]

\* renderScaled(gate, rate, adScale, releaseScale): the envelope afterwards.
RenderScaledEnv(e, g, rate, adScale, releaseScale) ==
    Advance(GateStage(e, g), rate, adScale, releaseScale)

\* Configurations set(increment, level) is called with: increments of a few
\* thousandths of a stage per unit of rate; levels of an operator envelope
\* whose attack crosses the reshape threshold, and of a pitch envelope.
IncrementPresets ==
    { <<2 * (PhaseOne \div 1000), 4 * (PhaseOne \div 1000),
        8 * (PhaseOne \div 1000), PhaseOne \div 1000>> }

LevelPresets ==
    { <<4 * LevelOne, 8 * LevelOne, 6 * LevelOne, LevelOne \div 16>>,
      <<0, LevelOne \div 2, -(LevelOne \div 2), 0>> }

\* rate arguments tried: multiples of 125 (a block of 24 samples times a
\* rate scaling of about 5) up to 125 * MaxRate, and 0; adScale and
\* releaseScale arguments tried: 1..MaxScale.
MaxRate == 2

MaxScale == 2

Rates == {125 * k : k \in 0..MaxRate}

EnvIdle ==
    /\ env = NewEnvelope(FALSE, 1)
    /\ envGate = "none"
    /\ envOut = 0
    /\ envHeld = "free"

\* ------------------------------------------------------------------
\* stmlib/dsp.js: the sine table and its wrapped lookup.
\* ------------------------------------------------------------------

SINE_LUT_SIZE == 512

SINE_LUT_BITS == 9

\* The value 1.0 of a table entry.
SineOne == 4096

\* LUT_SINE[i], one period of a sine over SINE_LUT_SIZE entries followed by
\* its first entries again (sine_lut.js): entry i is sin(2 pi i / 512),
\* here by Bhaskara's rational approximation of each half period.
LutSine(i) ==
    LET j == i % SINE_LUT_SIZE
        h == j % (SINE_LUT_SIZE \div 2)
        q == h * ((SINE_LUT_SIZE \div 2) - h)
        mag == (16 * q * SineOne) \div (5 * 65536 - 4 * q)
    IN IF j < SINE_LUT_SIZE \div 2 THEN mag ELSE -mag

\* interpolateWrap(table, index, size) for the phase p / one.
InterpolateWrap(p, one, size) ==
    LET index == (p % one) * size
        indexIntegral == index \div one
        indexFractional == index % one
        a == LutSine(indexIntegral)
        b == LutSine(indexIntegral + 1)
    IN [integral |-> indexIntegral, fractional |-> indexFractional,
        value |-> a + ((b - a) * indexFractional) \div one]

\* sine(phase) for the phase p / one.
Sine(p, one) == InterpolateWrap(p, one, SINE_LUT_SIZE).value

\* ------------------------------------------------------------------
\* fm/lfo.js and the LFO conversions of fm/dx_units.js.  Phases and
\* increments are counted in units of MIN_LFO_FREQUENCY * oneHz, the
\* frequency unit init(sampleRate) fixes; LfoOne of them make 1.0.
\* ------------------------------------------------------------------

LfoOne == 135168

\* lfoFrequency without the scaled rate 1 it gives to rate 0.
LfoFrequencyZeroUnscaled(rate) ==
    LET rateScaled == Shr(rate * 165, 6)
    IN rateScaled * (IF rateScaled < 160 THEN 11
                     ELSE 11 + Shr(rateScaled - 160, 4))

\* lfoFrequency(rate) in units of MIN_LFO_FREQUENCY
LfoFrequency(rate) ==
    LET rateScaled == IF rate = 0 THEN 1 ELSE Shr(rate * 165, 6)
    IN rateScaled * (IF rateScaled < 160 THEN 11
                     ELSE 11 + Shr(rateScaled - 160, 4))

\* 100000.0 in units of MIN_LFO_FREQUENCY = 0.005865
LfoNoDelay == 17050298

\* lfoDelay(delay) in units of MIN_LFO_FREQUENCY, for delay in 0..99
LfoDelay(delay) ==
    IF delay = 0
    THEN <<LfoNoDelay, LfoNoDelay>>
    ELSE LET d == 99 - delay
             dScaled == (16 + And(d, 15)) * 2 ^ (1 + Shr(d, 4))
             \* dScaled & 0xff80
             high == dScaled - (dScaled % 128)
         IN <<dScaled, Max(128, high)>>

\* LUT_PITCH_MOD_SENSITIVITY in 128ths
LUT_PITCH_MOD_SENSITIVITY == <<0, 10, 20, 33, 55, 92, 153, 256>>

\* modulations.pitchModDepth * 0.01 * pitchModSensitivity(...), in units of
\* 1 / 12800; an index past the table reads undefined and gives NaN.
PitchModDepth(m) ==
    IF m.pitchModSensitivity < Len(LUT_PITCH_MOD_SENSITIVITY)
    THEN [nan |-> FALSE,
          v |-> m.pitchModDepth
                * LUT_PITCH_MOD_SENSITIVITY[m.pitchModSensitivity + 1]]
    ELSE [nan |-> TRUE, v |-> 0]

\* waveformFromU8(value)
WaveformFromU8(value) == IF value \in 1..5 THEN value ELSE 0

\* value(): the waveform at the current phase, 1.0 being LfoOne.
LfoValue(l) ==
    CASE l.waveform = 0 ->
            IF 2 * l.phase < LfoOne THEN LfoOne - 2 * l.phase
            ELSE 2 * l.phase - LfoOne
      [] l.waveform = 1 -> LfoOne - l.phase
      [] l.waveform = 2 -> l.phase
      [] l.waveform = 3 -> IF 2 * l.phase < LfoOne THEN 0 ELSE LfoOne
      [] l.waveform = 4 ->
            (LfoOne * (SineOne + Sine(2 * l.phase + LfoOne, 2 * LfoOne)))
                \div (2 * SineOne)
      [] l.waveform = 5 -> l.randomValue
      [] OTHER -> 0

\* The fields init(sampleRate) leaves.
NewLfo ==
    [ phase |-> 0,
      frequency |-> LfoOne \div 10,
      delayPhase |-> 0,
      delayIncrement |-> <<LfoOne \div 10, LfoOne \div 10>>,
      value_ |-> 0,
      randomValue |-> 0,
      ampModDepth |-> 0,
      pitchModDepth |-> [nan |-> FALSE, v |-> 0],
      waveform |-> 0,
      resetPhase |-> FALSE ]

\* set(modulations)
LfoAfterSet(l, m) ==
    [l EXCEPT !.frequency = LfoFrequency(m.rate),
              !.delayIncrement = LfoDelay(m.delay),
              !.waveform = WaveformFromU8(m.waveform),
              !.resetPhase = (m.resetPhase # 0),
              !.ampModDepth = m.ampModDepth,
              !.pitchModDepth = PitchModDepth(m)]

\* reset()
LfoAfterReset(l) ==
    [l EXCEPT !.phase = IF l.resetPhase THEN 0 ELSE l.phase,
              !.delayPhase = 0]

\* The delay part of step(scale) without its saturation.
LfoDelayStepUnsaturated(delayPhase, delayIncrement, scale) ==
    delayPhase
    + scale * delayIncrement[IF 2 * delayPhase < LfoOne THEN 1 ELSE 2]

\* The delay part of step(scale).
LfoDelayStep(delayPhase, delayIncrement, scale) ==
    LET next == delayPhase
                + scale * delayIncrement[IF 2 * delayPhase < LfoOne
                                         THEN 1 ELSE 2]
    IN IF next >= LfoOne THEN LfoOne ELSE next

\* step(scale); random is what getFloat() returns if it is called.
LfoAfterStep(l, scale, random) ==
    LET phase == l.phase + scale * l.frequency
        wrapped == phase >= LfoOne
        l1 == [l EXCEPT !.phase = IF wrapped THEN phase - LfoOne ELSE phase,
                        !.randomValue = IF wrapped THEN random
                                        ELSE l.randomValue]
    IN [l1 EXCEPT !.value_ = LfoValue(l1),
                  !.delayPhase =
                      LfoDelayStep(l.delayPhase, l.delayIncrement, scale)]

\* The modulations of the patches the LFO is configured from.
LfoModulations ==
    { [rate |-> 50, delay |-> 99, pitchModDepth |-> 50, ampModDepth |-> 0,
       resetPhase |-> 0, waveform |-> 0, pitchModSensitivity |-> 3],
      [rate |-> 50, delay |-> 0, pitchModDepth |-> 99, ampModDepth |-> 99,
       resetPhase |-> 1, waveform |-> 5, pitchModSensitivity |-> 7],
      [rate |-> 25, delay |-> 67, pitchModDepth |-> 10, ampModDepth |-> 30,
       resetPhase |-> 1, waveform |-> 4, pitchModSensitivity |-> 8] }

\* scale arguments of step: block sizes up to MAX_BLOCK_SIZE.
LfoScales == {0, 12, 24}

\* Values getFloat() returns: the ends of [0, 1).
LfoRandoms == {0, LfoOne - 1}

\* ------------------------------------------------------------------
\* Unsigned 32-bit words, held as <<high, low>> halves of 16 bits, and the
\* unbounded sums they are compared with, held as four such halves.
\* ------------------------------------------------------------------

Half == 65536

\* x >>> 0 for a sum of two words given by halves: wrap to 32 bits.
U32AddNoCarry(a, b) == <<(a[1] + b[1]) % Half, (a[2] + b[2]) % Half>>

\* (a + b) >>> 0
U32Add(a, b) ==
    LET low == a[2] + b[2]
    IN <<(a[1] + b[1] + low \div Half) % Half, low % Half>>

\* (a * 2^n) >>> 0 for n in 0..15
U32Shl(a, n) ==
    LET k == 2 ^ (16 - n)
    IN <<((a[1] % k) * 2 ^ n + a[2] \div k) % Half, (a[2] % k) * 2 ^ n>>

\* a + b for a of four halves (most significant first) and a word b, with
\* no truncation below 64 bits.
U64Add(a, b) ==
    LET l4 == a[4] + b[2]
        l3 == a[3] + b[1] + l4 \div Half
        l2 == a[2] + l3 \div Half
        l1 == a[1] + l2 \div Half
    IN <<l1, l2 % Half, l3 % Half, l4 % Half>>

\* The low 32 bits of a sum of four halves.
Truncate32(a) == <<a[3], a[4]>>

\* ------------------------------------------------------------------
\* stmlib/dsp.js: sinePm and sine on 32-bit phases.  A modulation pm is
\* counted in units of 2^-23 (PmOne of them make 1.0).
\* ------------------------------------------------------------------

PmOne == 8388608

\* ((pm + OFFSET) * SCALE) >>> 0 with OFFSET = 32 and SCALE = 2^26
PhaseOffset(pm) ==
    LET x == pm + 32 * PmOne
    IN <<(x \div 8192) % Half, (x % 8192) * 8>>

\* The table position sinePm and interpolateWrap end with: the entry index,
\* the fraction in units of 2^-23, and the interpolated value.
Lookup(integral, fractional) ==
    LET a == LutSine(integral)
        b == LutSine(integral + 1)
    IN [integral |-> integral, fractional |-> fractional,
        value |-> a + ((b - a) * fractional) \div PmOne]

\* sinePm with the offset added as it stands, not multiplied by 64.
SinePmOffsetOnce(phase, pm) ==
    LET shifted == U32Add(phase, PhaseOffset(pm))
        integral == (shifted[1] \div 128) % 512
        scaled == U32Shl(shifted, SINE_LUT_BITS)
    IN Lookup(integral, scaled[1] * 128 + scaled[2] \div 512)

\* sinePm(phase, pm)
SinePm(phase, pm) ==
    LET phaseOffset == PhaseOffset(pm)
        \* phase + phaseOffset * multiplier, >>> 0; multiplier = 64
        shifted == U32Add(phase, U32Shl(phaseOffset, 6))
        \* (phase >>> (32 - SINE_LUT_BITS)) & 0x1FF
        integral == (shifted[1] \div 128) % 512
        \* ((phase << SINE_LUT_BITS) >>> 0) / MAX_UINT32
        scaled == U32Shl(shifted, SINE_LUT_BITS)
    IN Lookup(integral, scaled[1] * 128 + scaled[2] \div 512)

\* Sine32 with the fraction taken from the high half of the word only.
Sine32Coarse(p) ==
    Lookup(p[1] \div 128, (p[1] % 128) * Half)

\* sine(phase) for phase = p / 2^32, p a 32-bit word: interpolateWrap takes
\* index - floor(index), multiplies by 512 and splits at the point.
Sine32(p) ==
    Lookup(p[1] \div 128, (p[1] % 128) * Half + p[2])

\* ------------------------------------------------------------------
\* fm/operator.js: Operator and renderOperators.  Amplitudes are counted
\* in quarters (AmpOne of them make 1.0), samples in units of 2^-23.
\* ------------------------------------------------------------------

AmpOne == 4

\* Number of operators a chain can hold.
MaxChain == 3

\* new Operator()
NewOperatorState == [phase |-> <<0, 0>>, amplitude |-> 0]

\* (Math.min(f, 0.5) * 4294967296.0) >>> 0, for f >= 0 given in units of
\* 2^-32 by its halves.
FrequencyWord(f) == IF f[1] >= 32768 THEN <<32768, 0>> ELSE f

\* The target amplitude taken as it is.
UnclampedAmplitude(a) == a

\* Math.min(a, 4.0)
ClampAmplitude(a) == Min(a, 4 * AmpOne)

\* x * fbScale with the scale (1 << fbAmount) / 512.0 for every fbAmount.
FbScaledAlways(x, fbAmount) == x \div (512 \div 2 ^ fbAmount)

\* x * fbScale, fbScale being (1 << fbAmount) / 512.0 or 0.0; fbAmount is
\* in 0..7.
FbScaled(x, fbAmount) ==
    IF fbAmount # 0 THEN x \div (512 \div 2 ^ fbAmount) ELSE 0

\* The product of a table value and an amplitude in units of 2^-23.
Scaled(value, amplitude) == value * amplitude * (PmOne \div (SineOne * AmpOne))

\* The inner loop over the operators of the chain for one sample: st holds
\* phase, amplitude, previous0, previous1 and pm.
RECURSIVE RenderChainOps(_, _, _, _, _)
RenderChainOps(st, c, frequency, increment, i) ==
    IF i > c.n THEN st
    ELSE LET phase == U32Add(st.phase[i], frequency[i])
             pm == Scaled(SinePm(phase, st.pm).value, st.amplitude[i])
             fed == (i - 1 = c.source)
         IN RenderChainOps(
                [st EXCEPT !.phase[i] = phase,
                           !.pm = pm,
                           !.used[i] = Append(@, st.amplitude[i]),
                           !.fedOut = IF fed THEN Append(@, pm) ELSE @,
                           !.amplitude[i] = st.amplitude[i] + increment[i],
                           !.previous1 = IF fed THEN st.previous0 ELSE @,
                           !.previous0 = IF fed THEN pm ELSE @],
                c, frequency, increment, i + 1)

\* The loop over the samples of the block.
RECURSIVE RenderChainSamples(_, _, _, _, _)
RenderChainSamples(st, c, frequency, increment, sampleIdx) ==
    IF sampleIdx > c.size THEN st
    ELSE LET pm == IF c.source >= 0
                   THEN FbScaled(st.previous0 + st.previous1, c.fbAmount)
                   ELSE IF c.source = -2 THEN c.modulation[sampleIdx] ELSE 0
             st1 == RenderChainOps([st EXCEPT !.pm = pm,
                                              !.seeds = Append(@, pm)], c,
                                   frequency, increment, 1)
         IN RenderChainSamples(
                [st1 EXCEPT !.out[sampleIdx] =
                                IF c.additive THEN @ + st1.pm ELSE st1.pm],
                c, frequency, increment, sampleIdx + 1)

\* renderOperators(N, MODULATION_SOURCE, ADDITIVE)(ops, f, a, fbState,
\* fbAmount, modulation, out): the operators, history and buffer afterwards.
RenderOperators(o, fb, out, c) ==
    LET frequency == [i \in 1..c.n |-> FrequencyWord(c.f[i])]
        increment == [i \in 1..c.n |->
                        (ClampAmplitude(c.a[i]) - o[i].amplitude) \div c.size]
        st0 == [ phase |-> [i \in 1..c.n |-> o[i].phase],
                 amplitude |-> [i \in 1..c.n |-> o[i].amplitude],
                 previous0 |-> IF c.source >= 0 THEN fb[1] ELSE 0,
                 previous1 |-> IF c.source >= 0 THEN fb[2] ELSE 0,
                 pm |-> 0,
                 used |-> [i \in 1..c.n |-> <<>>],
                 seeds |-> <<>>,
                 fedOut |-> <<>>,
                 out |-> out ]
        st == RenderChainSamples(st0, c, frequency, increment, 1)
    IN [ ops |-> [i \in 1..MaxChain |->
                    IF i <= c.n
                    THEN [phase |-> st.phase[i], amplitude |-> st.amplitude[i]]
                    ELSE o[i]],
         fbState |-> IF c.source >= 0 THEN <<st.previous0, st.previous1>>
                     ELSE fb,
         out |-> st.out,
         trace |-> [ amplitude |-> [i \in 1..c.n |-> o[i].amplitude],
                     fbState |-> fb,
                     used |-> st.used,
                     seeds |-> st.seeds,
                     fedOut |-> st.fedOut ] ]

\* The unwrapped phase sums after a block: size increments per operator.
RECURSIVE AddTimes(_, _, _)
AddTimes(sum, word, times) ==
    IF times = 0 THEN sum ELSE AddTimes(U64Add(sum, word), word, times - 1)

\* The calls made on the chain: the renderers the voice is built with, on
\* blocks of 1, 2 and 4 samples, with increments that carry between the
\* halves of a phase and wrap it, and targets on both sides of 4.0.
ChainCallPresets ==
    { [ n |-> 1, source |-> -1, additive |-> FALSE, size |-> 1,
        f |-> <<<<32768, 0>>>>, a |-> <<6 * AmpOne>>,
        fbAmount |-> 0, modulation |-> <<0>> ],
      [ n |-> 1, source |-> -2, additive |-> TRUE, size |-> 2,
        f |-> <<<<0, 65535>>>>, a |-> <<AmpOne>>,
        fbAmount |-> 0, modulation |-> <<PmOne \div 4, -(PmOne \div 4)>> ],
      [ n |-> 1, source |-> 0, additive |-> FALSE, size |-> 1,
        f |-> <<<<49152, 0>>>>, a |-> <<2 * AmpOne>>,
        fbAmount |-> 7, modulation |-> <<0>> ],
      [ n |-> 2, source |-> 1, additive |-> TRUE, size |-> 2,
        f |-> <<<<32767, 65535>>, <<16384, 1>>>>, a |-> <<4 * AmpOne, 3 * AmpOne>>,
        fbAmount |-> 6, modulation |-> <<0, 0>> ],
      [ n |-> 3, source |-> 2, additive |-> TRUE, size |-> 4,
        f |-> <<<<0, 1>>, <<16384, 0>>, <<32767, 65535>>>>,
        a |-> <<4 * AmpOne, 0, 8 * AmpOne>>,
        fbAmount |-> 0, modulation |-> <<0, 0, 0, 0>> ] }

\* Blocks rendered in one run of the model.
MaxBlocks == 4

\* The out buffer handed to a call: the last one, cut or zero-filled to
\* the block size.
OutBuffer(size) ==
    [i \in 1..size |-> IF i <= Len(chainOut) THEN chainOut[i] ELSE 0]

\* No call was made on the chain yet.
NoTrace == [none |-> "trace"]

ChainIdle ==
    /\ ops = [i \in 1..MaxChain |-> NewOperatorState]
    /\ fbState = <<0, 0>>
    /\ chainOut = <<>>
    /\ chainCall = [n |-> 0]
    /\ phaseRef = [i \in 1..MaxChain |-> <<0, 0, 0, 0>>]
    /\ chainBlocks = 0
    /\ chainTrace = NoTrace

\* No result yet.
NoValue == [none |-> "value"]

\* Phases the two lookups are called with: around the ends of the range,
\* of a table entry and of the halves of the word.
SinePhases ==
    { <<h, l>> : h \in {0, 127, 128, 16384, 32767, 32768, 65535},
                 l \in {0, 1, 511, 512, 65535} }

\* Modulations sinePm is called with, in units of 2^-23: none, whole and
\* fractional indices of both signs, up to and beyond the index 32.
SineModulations ==
    { 0, 1, -1, PmOne \div 2, -(PmOne \div 4), PmOne + 3,
      32 * PmOne, -32 * PmOne, -33 * PmOne - 5, 31 * PmOne + PmOne \div 2 }

SineIdle ==
    /\ sinePhase = <<0, 0>>
    /\ sinePmIn = 0
    /\ sinePmOut = NoValue
    /\ sineOut = NoValue

\* ------------------------------------------------------------------
\* fm/algorithms.js: opcodes, renderers and Algorithms.compile.
\* ------------------------------------------------------------------

NUM_OPERATORS == 6

NUM_ALGORITHMS == 32

DESTINATION_MASK == 3

SOURCE_MASK == 48

SOURCE_FEEDBACK == 48

ADDITIVE_FLAG == 4

FEEDBACK_SOURCE_FLAG == 64

ModFlags(n) == n * 16

\* n | ADDITIVE_FLAG, for n below 4
AddFlags(n) == n + ADDITIVE_FLAG

OutFlags(n) == n

FB_SRC == FEEDBACK_SOURCE_FLAG

FB_DST == ModFlags(3)

FB == FB_SRC + FB_DST

NO_MOD == ModFlags(0)

OUTPUT == AddFlags(0)

\* opcode & DESTINATION_MASK
Destination(opcode) == opcode % 4

\* opcode & SOURCE_MASK
SourceBits(opcode) == ((opcode \div 16) % 4) * 16

\* (opcode & ADDITIVE_FLAG) !== 0
IsAdditive(opcode) == (opcode \div 4) % 2 = 1

\* (opcode & FEEDBACK_SOURCE_FLAG) !== 0
IsFeedbackSource(opcode) == (opcode \div 64) % 2 = 1

OPCODES_6 ==
    << <<FB + OutFlags(1), ModFlags(1) + OutFlags(1), ModFlags(1) + OutFlags(1),
         ModFlags(1) + OUTPUT, NO_MOD + OutFlags(1), ModFlags(1) + AddFlags(0)>>,
       <<NO_MOD + OutFlags(1), ModFlags(1) + OutFlags(1), ModFlags(1) + OutFlags(1),
         ModFlags(1) + OUTPUT, FB + OutFlags(1), ModFlags(1) + AddFlags(0)>>,
       <<FB + OutFlags(1), ModFlags(1) + OutFlags(1), ModFlags(1) + OUTPUT,
         NO_MOD + OutFlags(1), ModFlags(1) + OutFlags(1), ModFlags(1) + AddFlags(0)>>,
       <<FB_DST + NO_MOD + OutFlags(1), ModFlags(1) + OutFlags(1), FB_SRC + ModFlags(1) + OUTPUT,
         NO_MOD + OutFlags(1), ModFlags(1) + OutFlags(1), ModFlags(1) + AddFlags(0)>>,
       <<FB + OutFlags(1), ModFlags(1) + OUTPUT, NO_MOD + OutFlags(1),
         ModFlags(1) + AddFlags(0), NO_MOD + OutFlags(1), ModFlags(1) + AddFlags(0)>>,
       <<FB_DST + NO_MOD + OutFlags(1), FB_SRC + ModFlags(1) + OUTPUT, NO_MOD + OutFlags(1),
         ModFlags(1) + AddFlags(0), NO_MOD + OutFlags(1), ModFlags(1) + AddFlags(0)>>,
       <<FB + OutFlags(1), ModFlags(1) + OutFlags(1), NO_MOD + AddFlags(1),
         ModFlags(1) + OUTPUT, NO_MOD + OutFlags(1), ModFlags(1) + AddFlags(0)>>,
       <<NO_MOD + OutFlags(1), ModFlags(1) + OutFlags(1), FB + AddFlags(1),
         ModFlags(1) + OUTPUT, NO_MOD + OutFlags(1), ModFlags(1) + AddFlags(0)>>,
       <<NO_MOD + OutFlags(1), ModFlags(1) + OutFlags(1), NO_MOD + AddFlags(1),
         ModFlags(1) + OUTPUT, FB + OutFlags(1), ModFlags(1) + AddFlags(0)>>,
       <<NO_MOD + OutFlags(1), NO_MOD + AddFlags(1), ModFlags(1) + OUTPUT,
         FB + OutFlags(1), ModFlags(1) + OutFlags(1), ModFlags(1) + AddFlags(0)>>,
       <<FB + OutFlags(1), NO_MOD + AddFlags(1), ModFlags(1) + OUTPUT,
         NO_MOD + OutFlags(1), ModFlags(1) + OutFlags(1), ModFlags(1) + AddFlags(0)>>,
       <<NO_MOD + OutFlags(1), NO_MOD + AddFlags(1), NO_MOD + AddFlags(1),
         ModFlags(1) + OUTPUT, FB + OutFlags(1), ModFlags(1) + AddFlags(0)>>,
       <<FB + OutFlags(1), NO_MOD + AddFlags(1), NO_MOD + AddFlags(1),
         ModFlags(1) + OUTPUT, NO_MOD + OutFlags(1), ModFlags(1) + AddFlags(0)>>,
       <<FB + OutFlags(1), NO_MOD + AddFlags(1), ModFlags(1) + OutFlags(1),
         ModFlags(1) + OUTPUT, NO_MOD + OutFlags(1), ModFlags(1) + AddFlags(0)>>,
       <<NO_MOD + OutFlags(1), NO_MOD + AddFlags(1), ModFlags(1) + OutFlags(1),
         ModFlags(1) + OUTPUT, FB + OutFlags(1), ModFlags(1) + AddFlags(0)>>,
       <<FB + OutFlags(1), ModFlags(1) + OutFlags(1), NO_MOD + OutFlags(2),
         ModFlags(2) + AddFlags(1), NO_MOD + AddFlags(1), ModFlags(1) + OUTPUT>>,
       <<NO_MOD + OutFlags(1), ModFlags(1) + OutFlags(1), NO_MOD + OutFlags(2),
         ModFlags(2) + AddFlags(1), FB + AddFlags(1), ModFlags(1) + OUTPUT>>,
       <<NO_MOD + OutFlags(1), ModFlags(1) + OutFlags(1), ModFlags(1) + OutFlags(1),
         FB + AddFlags(1), NO_MOD + AddFlags(1), ModFlags(1) + OUTPUT>>,
       <<FB + OutFlags(1), ModFlags(1) + OUTPUT, ModFlags(1) + AddFlags(0),
         NO_MOD + OutFlags(1), ModFlags(1) + OutFlags(1), ModFlags(1) + AddFlags(0)>>,
       <<NO_MOD + OutFlags(1), NO_MOD + AddFlags(1), ModFlags(1) + OUTPUT,
         FB + OutFlags(1), ModFlags(1) + AddFlags(0), ModFlags(1) + AddFlags(0)>>,
       <<NO_MOD + OutFlags(1), ModFlags(1) + OUTPUT, ModFlags(1) + AddFlags(0),
         FB + OutFlags(1), ModFlags(1) + AddFlags(0), ModFlags(1) + AddFlags(0)>>,
       <<FB + OutFlags(1), ModFlags(1) + OUTPUT, ModFlags(1) + AddFlags(0),
         ModFlags(1) + AddFlags(0), NO_MOD + OutFlags(1), ModFlags(1) + AddFlags(0)>>,
       <<FB + OutFlags(1), ModFlags(1) + OUTPUT, ModFlags(1) + AddFlags(0),
         NO_MOD + OutFlags(1), ModFlags(1) + AddFlags(0), NO_MOD + AddFlags(0)>>,
       <<FB + OutFlags(1), ModFlags(1) + OUTPUT, ModFlags(1) + AddFlags(0),
         ModFlags(1) + AddFlags(0), NO_MOD + AddFlags(0), NO_MOD + AddFlags(0)>>,
       <<FB + OutFlags(1), ModFlags(1) + OUTPUT, ModFlags(1) + AddFlags(0),
         NO_MOD + AddFlags(0), NO_MOD + AddFlags(0), NO_MOD + AddFlags(0)>>,
       <<FB + OutFlags(1), NO_MOD + AddFlags(1), ModFlags(1) + OUTPUT,
         NO_MOD + OutFlags(1), ModFlags(1) + AddFlags(0), NO_MOD + AddFlags(0)>>,
       <<NO_MOD + OutFlags(1), NO_MOD + AddFlags(1), ModFlags(1) + OUTPUT,
         FB + OutFlags(1), ModFlags(1) + AddFlags(0), NO_MOD + AddFlags(0)>>,
       <<NO_MOD + OUTPUT, FB + OutFlags(1), ModFlags(1) + OutFlags(1),
         ModFlags(1) + AddFlags(0), NO_MOD + OutFlags(1), ModFlags(1) + AddFlags(0)>>,
       <<FB + OutFlags(1), ModFlags(1) + OUTPUT, NO_MOD + OutFlags(1),
         ModFlags(1) + AddFlags(0), NO_MOD + AddFlags(0), NO_MOD + AddFlags(0)>>,
       <<NO_MOD + OUTPUT, FB + OutFlags(1), ModFlags(1) + OutFlags(1),
         ModFlags(1) + AddFlags(0), NO_MOD + AddFlags(0), NO_MOD + AddFlags(0)>>,
       <<FB + OutFlags(1), ModFlags(1) + OUTPUT, NO_MOD + AddFlags(0),
         NO_MOD + AddFlags(0), NO_MOD + AddFlags(0), NO_MOD + AddFlags(0)>>,
       <<FB + OUTPUT, NO_MOD + AddFlags(0), NO_MOD + AddFlags(0),
         NO_MOD + AddFlags(0), NO_MOD + AddFlags(0), NO_MOD + AddFlags(0)>> >>

\* A renderer: renderOperators(n, modulationSource, additive).
Renderer(n, modulationSource, additive) ==
    [n |-> n, modulationSource |-> modulationSource, additive |-> additive]

\* RENDERERS_6 up to its end marker (the entry with n = 0)
RENDERERS_6 ==
    << Renderer(1, -2, FALSE), Renderer(1, -2, TRUE),
       Renderer(1, -1, FALSE), Renderer(1, -1, TRUE),
       Renderer(1, 0, FALSE), Renderer(1, 0, TRUE),
       Renderer(3, 2, TRUE), Renderer(2, 1, TRUE) >>

\* null
NoRenderer == [none |-> "renderer"]

\* getRenderer looking for the chain length and modulation source only.
GetRendererAnyOutput(n, modulationSource, additive) ==
    LET hits == {k \in 1..Len(RENDERERS_6) :
                    /\ RENDERERS_6[k].n = n
                    /\ RENDERERS_6[k].modulationSource = modulationSource}
    IN IF hits = {} THEN NoRenderer
       ELSE RENDERERS_6[CHOOSE k \in hits : \A m \in hits : k <= m]

\* getRenderer(n, modulationSource, additive): the first match, or null.
GetRenderer(n, modulationSource, additive) ==
    LET hits == {k \in 1..Len(RENDERERS_6) :
                    /\ RENDERERS_6[k].n = n
                    /\ RENDERERS_6[k].modulationSource = modulationSource
                    /\ RENDERERS_6[k].additive = additive}
    IN IF hits = {} THEN NoRenderer
       ELSE RENDERERS_6[CHOOSE k \in hits : \A m \in hits : k <= m]

\* new RenderCall(renderFn, n, inputIndex, outputIndex)
RenderCall(renderFn, n, inputIndex, outputIndex) ==
    [renderFn |-> renderFn, n |-> n,
     inputIndex |-> inputIndex, outputIndex |-> outputIndex]

\* new RenderCall()
DefaultRenderCall == RenderCall(Renderer(1, -1, FALSE), 0, 0, 0)

\* The inner loop of compile that chains operators: opcodes[i + 1] is the
\* opcode of operator i.
RECURSIVE ChainLength(_, _, _)
ChainLength(opcodes, i, n) ==
    IF i + n < NUM_OPERATORS
    THEN LET from == opcodes[i + n]
             to == SourceBits(opcodes[i + n + 1]) \div 16
             hasAdditive == IsAdditive(from)
             broken == Destination(from) # to
         IN IF hasAdditive \/ broken
            THEN IF to = Destination(opcodes[i + 1]) THEN 1 ELSE n
            ELSE ChainLength(opcodes, i, n + 1)
    ELSE n

\* modulationSource of an attempt
ModulationSourceOf(opcodes, i, n) ==
    LET opcode == opcodes[i + 1]
        taps == {j \in 0..(n - 1) : IsFeedbackSource(opcodes[i + j + 1])}
    IN IF SourceBits(opcode) = 0 THEN -1
       ELSE IF SourceBits(opcode) # SOURCE_FEEDBACK THEN -2
       ELSE IF taps = {} THEN -3
       ELSE CHOOSE j \in taps : \A k \in taps : k <= j

\* An attempt that hands RenderCall the output index as the input index
\* and the input index as the output index.
AttemptSwapped(opcodes, i, n) ==
    LET opcode == opcodes[i + 1]
        outOpcode == opcodes[i + n]
        renderFn == GetRenderer(n, ModulationSourceOf(opcodes, i, n),
                                IsAdditive(outOpcode))
    IN [ found |-> renderFn # NoRenderer,
         call |-> RenderCall(renderFn, n, Destination(outOpcode),
                             SourceBits(opcode) \div 16) ]

\* An attempt that looks for the feedback tap in the first operator of
\* the chain only.
AttemptTapFirst(opcodes, i, n) ==
    LET opcode == opcodes[i + 1]
        outOpcode == opcodes[i + n]
        source == ModulationSourceOf(opcodes, i, 1)
        renderFn == GetRenderer(n, IF source >= 0 THEN n - 1 ELSE source,
                                IsAdditive(outOpcode))
    IN [ found |-> renderFn # NoRenderer,
         call |-> RenderCall(renderFn, n, SourceBits(opcode) \div 16,
                             Destination(outOpcode)) ]

\* One attempt of compile at a chain of n operators from operator i.
Attempt(opcodes, i, n) ==
    LET opcode == opcodes[i + 1]
        outOpcode == opcodes[i + n]
        renderFn == GetRenderer(n, ModulationSourceOf(opcodes, i, n),
                                IsAdditive(outOpcode))
    IN [ found |-> renderFn # NoRenderer,
         call |-> RenderCall(renderFn, n, SourceBits(opcode) \div 16,
                             Destination(outOpcode)) ]

\* compile's round without the second attempt at a chain of one operator.
CompileAtNoFallback(opcodes, i) ==
    LET n0 == ChainLength(opcodes, i, 1)
        first == Attempt(opcodes, i, n0)
    IN IF first.found THEN [n |-> n0, stored |-> TRUE, call |-> first.call]
       ELSE [n |-> n0, stored |-> FALSE, call |-> DefaultRenderCall]

\* One round of compile's outer loop at operator i: the chain length it
\* advances by, and the call it stores (if it finds a renderer).
CompileAt(opcodes, i) ==
    LET n0 == ChainLength(opcodes, i, 1)
        first == Attempt(opcodes, i, n0)
        n1 == IF n0 > 1 THEN 1 ELSE n0
        second == Attempt(opcodes, i, n1)
    IN IF first.found THEN [n |-> n0, stored |-> TRUE, call |-> first.call]
       ELSE IF second.found
            THEN [n |-> n1, stored |-> TRUE, call |-> second.call]
            ELSE [n |-> n1, stored |-> FALSE, call |-> DefaultRenderCall]

\* isModulator(algorithm, op)
IsModulator(a, op) == Destination(OPCODES_6[a + 1][op + 1]) # 0

AlgoIdle ==
    /\ algorithm = 0
    /\ renderCalls = [i \in 1..NUM_OPERATORS |-> DefaultRenderCall]
    /\ compileAt = 0
    /\ dispatchAt = -1
    /\ visited = <<>>

\* ------------------------------------------------------------------
\* fm/voice.js: Voice, with the conversions of fm/dx_units.js that setup
\* caches.  What the voice renders into its buffers is not part of this
\* state; the chain renderer and the envelope have their own.
\* ------------------------------------------------------------------

\* operatorLevel(level)
OperatorLevel(level) ==
    IF level < 20
    THEN IF level < 15 THEN Shr(level * (36 - level), 3) ELSE 27 + level
    ELSE level + 28

\* LUT_COARSE in millionths of a semitone
LUT_COARSE ==
    << -12000000, 0, 12000000, 19019550, 24000000, 27863137,
       31019550, 33688259, 36000000, 38039100, 39863137, 41513180,
       43019550, 44405276, 45688259, 46882687, 48000000, 49049554,
       50039100, 50975130, 51863137, 52707809, 53513180, 54282743,
       55019550, 55726274, 56405276, 57058650, 57688259, 58295772,
       58882687, 59450356 >>

\* frequencyRatio(op), as the two factors of its result: the semitones
\* handed to semitonesToRatioSafe, in millionths, and detune, in hundredths.
FrequencyRatio(op) ==
    [ semitones |->
        (IF op.mode = 0 THEN LUT_COARSE[op.coarse + 1]
         ELSE (And(op.coarse, 3) * 100 + op.fine) * 398640)
        + (op.detune - 7) * 15000,
      detune |-> IF op.mode = 0 /\ op.fine # 0 THEN 100 + op.fine ELSE 100 ]

\* What setup derives from a patch: the arguments it configures the
\* envelopes with, levelHeadroom and ratios.
Derived(p) ==
    [ pitchEnvelope |-> [rate |-> p.pitchEnvelope.rate,
                         level |-> p.pitchEnvelope.level],
      operatorEnvelope |->
        [i \in 1..NUM_OPERATORS |->
            [rate |-> p.op[i].envelope.rate,
             level |-> p.op[i].envelope.level,
             globalLevel |-> OperatorLevel(p.op[i].level)]],
      levelHeadroom |->
        [i \in 1..NUM_OPERATORS |-> 127 - OperatorLevel(p.op[i].level)],
      ratios |->
        [i \in 1..NUM_OPERATORS |->
            [sign |-> IF p.op[i].mode = 0 THEN 1 ELSE -1,
             ratio |-> FrequencyRatio(p.op[i])]] ]

\* The cached quantities of a voice before its first setup: envelopes as
\* init leaves them, zeroed arrays.
NoCache ==
    [ pitchEnvelope |-> [rate |-> <<>>, level |-> <<>>],
      operatorEnvelope |->
        [i \in 1..NUM_OPERATORS |->
            [rate |-> <<>>, level |-> <<>>, globalLevel |-> 0]],
      levelHeadroom |-> [i \in 1..NUM_OPERATORS |-> 0],
      ratios |-> [i \in 1..NUM_OPERATORS |->
                    [sign |-> 0, ratio |-> [semitones |-> 0, detune |-> 0]]] ]

\* The constructor up to its call of setup().
NewVoice(p) ==
    [ patch |-> p,
      dirty |-> TRUE,
      gate |-> FALSE,
      note |-> 48,
      normalizedVelocity |-> [of |-> "initial"],
      cache |-> NoCache,
      envelopeGate |-> "none",
      phaseReset |-> FALSE ]

\* setup() that derives the quantities and leaves the voice dirty.
VoiceAfterSetupStillDirty(v) ==
    IF ~v.dirty
    THEN [voice |-> v, result |-> FALSE]
    ELSE [voice |-> [v EXCEPT !.cache = Derived(v.patch)], result |-> TRUE]

\* setup(): the voice afterwards and what it returns.
VoiceAfterSetup(v) ==
    IF ~v.dirty
    THEN [voice |-> v, result |-> FALSE]
    ELSE [voice |-> [v EXCEPT !.cache = Derived(v.patch), !.dirty = FALSE],
          result |-> TRUE]

\* renderInternal that zeroes the phases of a patch that asks for it in
\* every block whose gate is on.
VoiceAfterRenderResetWhileGated(v, parameters) ==
    LET take == (parameters.gate /\ ~v.gate) \/ parameters.sustain
    IN [v EXCEPT
          !.envelopeGate = IF parameters.sustain THEN @
                           ELSE IF parameters.gate THEN "on" ELSE "off",
          !.gate = parameters.gate,
          !.normalizedVelocity = IF take THEN [of |-> parameters.velocity]
                                 ELSE @,
          !.note = IF take THEN parameters.note - 24 + v.patch.transpose
                   ELSE @,
          !.phaseReset = parameters.gate /\ v.patch.resetPhase # 0]

\* renderInternal(parameters, buffers, size) as far as the voice's own
\* fields go: nothing more than setup if that did something; otherwise the
\* envelopes see the gate (unless sustain scrubs them), the gate is
\* stored, note and velocity are taken on a rising edge or under sustain,
\* and a rising edge zeroes the operator phases if the patch asks for it.
VoiceAfterRender(v, parameters) ==
    LET s == VoiceAfterSetup(v)
        v1 == s.voice
        inputNote == parameters.note - 24 + v1.patch.transpose
        noteOn == parameters.gate /\ ~v1.gate
        take == noteOn \/ parameters.sustain
    IN IF s.result THEN v1
       ELSE [v1 EXCEPT
               !.envelopeGate = IF parameters.sustain THEN @
                                ELSE IF parameters.gate THEN "on" ELSE "off",
               !.gate = parameters.gate,
               !.normalizedVelocity = IF take THEN [of |-> parameters.velocity]
                                      ELSE @,
               !.note = IF take THEN inputNote ELSE @,
               !.phaseReset = noteOn /\ v1.patch.resetPhase # 0]

\* Patches voices are built on and rebound to: a new Patch and three
\* decoded voices, the second of them with resetPhase 1.
VoicePatches ==
    {NewPatch} \cup {UnpackFields(RampVoice(s)) : s \in {7, 9, 99}}

\* Parameters render is called with.
VoiceParameters ==
    [ gate : BOOLEAN, sustain : BOOLEAN, note : {60}, velocity : {"soft", "hard"} ]

VoiceIdle ==
    /\ voice = NewVoice(NewPatch)
    /\ voiceCall = [fn |-> "none", result |-> FALSE]
    /\ voicePc = "idle"

\* ------------------------------------------------------------------
\* fm/dx_units.js: pow2Fast.  x is counted in sixteenths (PowOne of them
\* make 1.0); a result is the pair of the integral part taken as the
\* exponent and the factor it multiplies, in ten-thousandths, together
\* with the fractional part the factor was computed from.
\* ------------------------------------------------------------------

PowOne == 16

\* 2^(k/16) in ten-thousandths, for k in 0..15: what Math.pow(2, x) gives
\* on the fractional part of x.
EXP2_SIXTEENTHS == <<10000, 10443, 10905, 11388, 11892, 12419, 12968, 13543, 14142, 14768, 15422, 16105, 16818, 17563, 18340, 19152>>

\* 1.0 + x * (0.6565 + x * 0.3435)
Poly2(x) == 10000 + (x * (6565 * PowOne + 3435 * x)) \div (PowOne * PowOne)

\* 1.0 + x * (0.6958 + x * (0.2251 + x * 0.0791))
Poly3(x) ==
    10000 + (x * (6958 * PowOne * PowOne + x * (2251 * PowOne + 791 * x)))
            \div (PowOne * PowOne * PowOne)

\* Math.floor(x)
Floor(x) == x \div PowOne

\* pow2Fast(x, order)
Pow2Fast(x, order) ==
    IF order = 1
    THEN [ integral |-> Floor(x), fractional |-> x % PowOne,
           factor |-> EXP2_SIXTEENTHS[(x % PowOne) + 1] ]
    ELSE LET xIntegral == IF x < 0 THEN Floor(x) - 1 ELSE Floor(x)
             fractional == x - xIntegral * PowOne
         IN [ integral |-> xIntegral, fractional |-> fractional,
              factor |-> IF order = 2 THEN Poly2(fractional)
                         ELSE Poly3(fractional) ]

\* Arguments pow2Fast is called with: x from -MaxPow to MaxPow, as the
\* voice calls it with negative and positive exponents.
MaxPow == 3

PowInputs == (-MaxPow * PowOne)..(MaxPow * PowOne)

PowIdle ==
    /\ powX = 0
    /\ powOrder = 1
    /\ powOut = NoValue

UnitsIdle ==
    /\ unitsCall = [fn |-> "none", arg |-> 0]
    /\ unitsOut = <<>>

TwinIdle ==
    /\ lfoA = NewLfo
    /\ lfoB = NewLfo
    /\ twinCall = [fn |-> "init", arg |-> 0]

LfoIdle ==
    /\ lfo = NewLfo
    /\ lfoCall = [fn |-> "init", arg |-> 0]

DspIdle ==
    /\ LfoIdle
    /\ ChainIdle
    /\ SineIdle
    /\ AlgoIdle
    /\ VoiceIdle
    /\ PowIdle
    /\ UnitsIdle
    /\ TwinIdle

\* No voice decoded, no bank constructed, no samples generated: the parts
\* of the state a specification about another part leaves alone.
PatchIdle ==
    /\ voiceIn = <<>>
    /\ patch = NewPatch
    /\ patchErr = "none"
    /\ made = NoPatch
    /\ lastCall = [fn |-> "new Patch", data |-> <<>>]

BankIdle ==
    /\ bankIn = <<>>
    /\ bank = NoBank
    /\ bankErr = "none"
    /\ bankPc = "idle"

GenIdle ==
    /\ sampleRate = 0
    /\ durationMs = 0
    /\ voiceSignal = <<>>
    /\ output = <<>>
    /\ rendered = <<>>
    /\ remaining = 0
    /\ consecutiveSilentSamples = 0
    /\ gate = FALSE
    /\ calls = <<>>
    /\ genPc = "idle"
    /\ stop = "none"

\* A caller holding a voice and a newly constructed Patch.
InitPatch ==
    /\ voiceIn \in VoiceInputs
    /\ patch = NewPatch
    /\ patchErr = "none"
    /\ made = NoPatch
    /\ lastCall = [fn |-> "new Patch", data |-> <<>>]
    /\ BankIdle
    /\ GenIdle
    /\ EnvIdle
    /\ DspIdle

\* patch.unpack(data)
Unpack(data) ==
    LET r == UnpackResult(patch, data) IN
    /\ patch' = r.fields
    /\ patchErr' = r.err
    /\ lastCall' = [fn |-> "unpack", data |-> data]
    /\ UNCHANGED <<voiceIn, made>>

\* made = Patch.fromBytes(data), the patch object of unpack left alone
FromBytes(data) ==
    LET r == FromBytesResult(data) IN
    /\ made' = r.patch
    /\ patchErr' = r.err
    /\ lastCall' = [fn |-> "fromBytes", data |-> data]
    /\ UNCHANGED <<voiceIn, patch>>

NextPatch ==
    \/ \E data \in CallData(voiceIn) : Unpack(data) /\ UNCHANGED <<bankVars, genVars, envVars, dspVars>>
    \/ \E data \in CallData(voiceIn) : FromBytes(data) /\ UNCHANGED <<bankVars, genVars, envVars, dspVars>>

-----------------------------------------------------------------------------
(* Callers of new PatchBank                                                 *)

\* HeaderMatches with the loop stopping one byte early (i < 5).
HeaderMatchesFive(data) == \A i \in 0..4 : ByteAt(data, i) = HEADER_BANK[i + 1]

\* The header check of the constructor: its loop over the six header bytes.
HeaderMatches(data) == \A i \in 0..5 : ByteAt(data, i) = HEADER_BANK[i + 1]

\* BankPatchData with the payload taken one byte late (data.slice(7)).
BankPatchDataLate(data) == SliceFrom(data, 7)

\* patchData = data.slice(6)
BankPatchData(data) == SliceFrom(data, 6)

\* patchData.slice(start, end) for patch idx of the bank.
BankPatchSlice(patchData, idx) ==
    Slice(patchData, idx * SYX_SIZE, (idx + 1) * SYX_SIZE)

\* What the constructor leaves: the error raised and the bank (NoBank when
\* it threw: the object under construction is never handed to the caller).
PatchBankResult(data) ==
    IF Len(data) # BULK_FULL_SYSEX_SIZE
    THEN [err |-> "BadBankLength", bank |-> NoBank]
    ELSE IF ~HeaderMatches(data)
    THEN [err |-> "BadBankHeader", bank |-> NoBank]
    ELSE LET patchData == BankPatchData(data)
             from == [idx \in 0..(BANK_PATCHES - 1) |->
                         FromBytesResult(BankPatchSlice(patchData, idx))]
         IN IF \E idx \in 0..(BANK_PATCHES - 1) : from[idx].err # "none"
            THEN [err |-> "BadVoiceLength", bank |-> NoBank]
            ELSE [err |-> "none",
                  bank |-> [patches |->
                      [k \in 1..BANK_PATCHES |-> from[k - 1].patch]]]

\* Payload seeds of the banks tried.
MaxSeed == 2

\* The two bytes after the payload: zeroes, a checksum with the sysex
\* terminator F7, and all ones.
TrailerPairs == {<<0, 0>>, <<127, 247>>, <<255, 255>>}

\* A header byte, or the byte at header position hp replaced by a wrong one
\* (hp = -1: the header as it should be).
HeaderFaults ==
    {<<-1, 0>>} \cup {<<hp, d>> : hp \in 0..5, d \in {1, 128}}

\* Byte i (from 0) of a bank of the given length: the header with its fault,
\* a payload in which every voice differs from its neighbours, the trailer.
BankByte(i, fault, seed, trailer) ==
    IF i < 6
    THEN IF i = fault[1] THEN (HEADER_BANK[i + 1] + fault[2]) % 256
         ELSE HEADER_BANK[i + 1]
    ELSE IF i >= 6 + BANK_PATCHES * SYX_SIZE
    THEN trailer[1 + ((i - 6) % 2)]
    ELSE (i * 7 + ((i - 6) \div SYX_SIZE) * 13 + seed * 31) % 256

BankInputs ==
    { [i \in 1..len |-> BankByte(i - 1, fault, seed, trailer)] :
        len \in {BULK_FULL_SYSEX_SIZE - 1, BULK_FULL_SYSEX_SIZE,
                 BULK_FULL_SYSEX_SIZE + 1},
        fault \in HeaderFaults, seed \in 0..MaxSeed, trailer \in TrailerPairs }

\* A caller holding the bytes of a bank, before the constructor runs; the
\* single-voice decoder is not called.
InitBank ==
    /\ bankIn \in BankInputs
    /\ bank = NoBank
    /\ bankErr = "none"
    /\ bankPc = "new"
    /\ PatchIdle
    /\ GenIdle
    /\ EnvIdle
    /\ DspIdle

\* bank = new PatchBank(bankIn)
NewPatchBank ==
    LET r == PatchBankResult(bankIn) IN
    /\ bankPc = "new"
    /\ bank' = r.bank
    /\ bankErr' = r.err
    /\ bankPc' = "done"
    /\ UNCHANGED bankIn

NextBank == NewPatchBank /\ UNCHANGED <<patchVars, genVars, envVars, dspVars>>

\* The decoder of single voices.
SpecPatch == InitPatch /\ [][NextPatch]_vars

\* The decoder of banks.
SpecBank == InitBank /\ [][NextBank]_vars

-----------------------------------------------------------------------------
(* generateSamples                                                          *)

\* Sample amplitudes are integers in units of 0.00001, so that the silence
\* threshold 0.0001 is 10.
SilenceThreshold == 10

MAX_BLOCK_SIZE == 24

Abs(x) == IF x < 0 THEN -x ELSE x

\* nSamples = Math.floor((durationMs / 1000) * sampleRate), in exact arithmetic
NSamples(ms, rate) == (ms * rate) \div 1000

\* silenceDurationSamples = Math.floor((sampleRate * 100) / 1000)
SilenceDurationSamples(rate) == (rate * 100) \div 1000

\* A sample that is not below the threshold: exactly at it, or well above,
\* of either sign.
LoudSample(n) == IF n % 2 = 0 THEN SilenceThreshold ELSE -(3 * SilenceThreshold)

\* A sample below the threshold: zero, or just under it, of either sign.
QuietSample(n) ==
    IF n % 3 = 0 THEN 0
    ELSE IF n % 3 = 1 THEN SilenceThreshold - 1 ELSE -(SilenceThreshold - 1)

\* The samples rendered while the gate is on: all quiet or all loud.
GateOnSample(sig, n) == IF sig.gateQuiet THEN QuietSample(n) ELSE LoudSample(n)

\* Release sample n (from 0) of the voice: loud for `lead` samples, quiet for
\* `run` samples, then its tail, loud or quiet for ever.
ReleaseSample(sig, n) ==
    IF n < sig.lead THEN LoudSample(n)
    ELSE IF n < sig.lead + sig.run THEN QuietSample(n)
    ELSE IF sig.tailQuiet THEN QuietSample(n) ELSE LoudSample(n)

\* The number of samples the renderTemp calls of cs rendered with the gate g.
RECURSIVE RenderedWith(_, _)
RenderedWith(cs, g) ==
    IF cs = <<>> THEN 0
    ELSE RenderedWith(Tail(cs), g)
         + (IF Head(cs).fn = "renderTemp" /\ Head(cs).gate = g
            THEN Head(cs).n ELSE 0)

\* voice.renderTemp(parameters, buf) with buf of 3 * size samples: the first
\* size samples of buf afterwards, the voice continuing where it was.
RenderTemp(sig, g, cs, size) ==
    LET pos == RenderedWith(cs, g) IN
    [i \in 1..size |->
        IF g THEN GateOnSample(sig, pos + i - 1)
        ELSE ReleaseSample(sig, pos + i - 1)]

\* The two calls of one block, as recorded in calls.
BlockCalls(g, size) ==
    << [fn |-> "lfo.step", gate |-> g, n |-> size],
       [fn |-> "renderTemp", gate |-> g, n |-> size] >>

\* BlockSize with every block rendered at the full block size.
BlockSizeFull(left) == MAX_BLOCK_SIZE

\* blockSize = Math.min(remaining, MAX_BLOCK_SIZE)
BlockSize(left) == Min(left, MAX_BLOCK_SIZE)

\* The silence loop over one chunk: consecutiveSilentSamples after samples
\* i.. of the chunk, c being its value before them.
RECURSIVE CountSilent(_, _, _)
CountSilent(chunk, i, c) ==
    IF i > Len(chunk) THEN c
    ELSE CountSilent(chunk, i + 1,
             IF Abs(chunk[i]) < SilenceThreshold THEN c + 1 ELSE 0)

\* TruncateTo with the silence duration left out: all the silence is cut.
TruncateToSound(len, silent, silenceDuration) == Max(0, len - silent)

\* truncateTo = Math.max(0, output.length - (consecutiveSilentSamples -
\* silenceDurationSamples))
TruncateTo(len, silent, silenceDuration) ==
    Max(0, len - (silent - silenceDuration))

\* Gate-on durations tried, in milliseconds: none, one that needs a full and
\* a partial block, and one longer than ten seconds.
ShortDurationMs == 1250

LongDurationMs == 10500

Durations == {0, ShortDurationMs, LongDurationMs}

\* Sample rates tried: just below and at each step of the silence duration.
MaxRateSteps == 2

SampleRates == {10 * k - j : k \in 1..MaxRateSteps, j \in 0..1}

\* Voice signals tried.
MaxLead == 25

MaxRun == 3

VoiceSignals ==
    { [lead |-> l, run |-> r, tailQuiet |-> t, gateQuiet |-> q] :
        l \in 0..MaxLead, r \in 0..MaxRun, t \in BOOLEAN, q \in BOOLEAN }

\* generateSamples up to its first loop: the voice and LFO constructed,
\* output empty, parameters.gate true, remaining = nSamples.
InitGen ==
    /\ sampleRate \in SampleRates
    /\ durationMs \in Durations
    /\ voiceSignal \in {v \in VoiceSignals : v.tailQuiet => v.run = 0}
    /\ output = <<>>
    /\ rendered = <<>>
    /\ remaining = NSamples(durationMs, sampleRate)
    /\ consecutiveSilentSamples = 0
    /\ gate = TRUE
    /\ calls = <<>>
    /\ genPc = "gateOn"
    /\ stop = "none"
    /\ PatchIdle
    /\ BankIdle
    /\ EnvIdle
    /\ DspIdle

\* One iteration of the gate-on loop.
GateOnBlock ==
    LET blockSize == BlockSize(remaining)
        buf == RenderTemp(voiceSignal, gate, calls, blockSize)
    IN /\ genPc = "gateOn"
       /\ remaining > 0
       /\ calls' = calls \o BlockCalls(gate, blockSize)
       /\ output' = output \o buf
       /\ rendered' = rendered \o buf
       /\ remaining' = remaining - blockSize
       /\ UNCHANGED <<genArgs, consecutiveSilentSamples, gate, genPc, stop>>

\* The gate-on loop ends: parameters.gate = false, the silence count starts.
GateOff ==
    /\ genPc = "gateOn"
    /\ ~(remaining > 0)
    /\ gate' = FALSE
    /\ consecutiveSilentSamples' = 0
    /\ genPc' = "release"
    /\ UNCHANGED <<genArgs, output, rendered, remaining, calls, stop>>

\* One iteration of the release loop with the silence exit only.
ReleaseBlockNoLimit ==
    \E chunk \in {RenderTemp(voiceSignal, gate, calls, MAX_BLOCK_SIZE)} :
      \E silent \in {CountSilent(chunk, 1, consecutiveSilentSamples)} :
        LET pushed == output \o chunk
            silenceDuration == SilenceDurationSamples(sampleRate)
        IN /\ genPc = "release"
           /\ calls' = calls \o BlockCalls(gate, MAX_BLOCK_SIZE)
           /\ rendered' = rendered \o chunk
           /\ consecutiveSilentSamples' = silent
           /\ IF silent >= silenceDuration
              THEN /\ output' = SubSeq(pushed, 1,
                                    TruncateTo(Len(pushed), silent, silenceDuration))
                   /\ genPc' = "returned"
                   /\ stop' = "silence"
              ELSE /\ output' = pushed
                   /\ UNCHANGED <<genPc, stop>>
           /\ UNCHANGED <<genArgs, remaining, gate>>

\* One iteration of the release loop, with its two exits; on either exit
\* the output array is what generateSamples returns.
ReleaseBlock ==
    \E chunk \in {RenderTemp(voiceSignal, gate, calls, MAX_BLOCK_SIZE)} :
      \E silent \in {CountSilent(chunk, 1, consecutiveSilentSamples)} :
        LET pushed == output \o chunk
            silenceDuration == SilenceDurationSamples(sampleRate)
        IN /\ genPc = "release"
           /\ calls' = calls \o BlockCalls(gate, MAX_BLOCK_SIZE)
           /\ rendered' = rendered \o chunk
           /\ consecutiveSilentSamples' = silent
           /\ IF silent >= silenceDuration
              THEN /\ output' = SubSeq(pushed, 1,
                                    TruncateTo(Len(pushed), silent, silenceDuration))
                   /\ genPc' = "returned"
                   /\ stop' = "silence"
              ELSE IF Len(pushed) > sampleRate * 10
              THEN /\ output' = pushed
                   /\ genPc' = "returned"
                   /\ stop' = "limit"
              ELSE /\ output' = pushed
                   /\ UNCHANGED <<genPc, stop>>
           /\ UNCHANGED <<genArgs, remaining, gate>>

NextGen ==
    \/ GateOnBlock /\ UNCHANGED <<patchVars, bankVars, envVars, dspVars>>
    \/ GateOff /\ UNCHANGED <<patchVars, bankVars, envVars, dspVars>>
    \/ ReleaseBlock /\ UNCHANGED <<patchVars, bankVars, envVars, dspVars>>

\* One call of generateSamples.
SpecGen == InitGen /\ [][NextGen]_vars

\* Voice signals whose release starts quiet or loud for more than a block,
\* with or without a quiet run too short or long enough to end the loop,
\* and a tail that is quiet or loud for ever.
LiveVoiceSignals ==
    { v \in VoiceSignals :
        /\ v.lead \in {0, MaxLead}
        /\ v.run \in {0, MaxRun}
        /\ v.tailQuiet => v.run = 0 }

\* generateSamples up to its first loop, for one of these voices.
InitGenLive ==
    /\ sampleRate \in SampleRates
    /\ durationMs \in Durations
    /\ voiceSignal \in LiveVoiceSignals
    /\ output = <<>>
    /\ rendered = <<>>
    /\ remaining = NSamples(durationMs, sampleRate)
    /\ consecutiveSilentSamples = 0
    /\ gate = TRUE
    /\ calls = <<>>
    /\ genPc = "gateOn"
    /\ stop = "none"
    /\ PatchIdle
    /\ BankIdle
    /\ EnvIdle
    /\ DspIdle

\* One call of generateSamples that is left to run: a loop iteration that
\* can be taken is taken.
SpecGenLive == InitGenLive /\ [][NextGen]_vars /\ WF_vars(NextGen)

-----------------------------------------------------------------------------
(* Callers of one Envelope                                                  *)

\* An envelope as the constructor leaves it, of an operator (reshaping) or
\* of the pitch (not reshaping).
InitEnv ==
    /\ \E reshape \in BOOLEAN : env = NewEnvelope(reshape, 1)
    /\ envGate = "none"
    /\ envOut = 0
    /\ envHeld = "free"
    /\ PatchIdle
    /\ BankIdle
    /\ GenIdle
    /\ DspIdle

\* set(increment, level)
EnvSet(increment, level) ==
    /\ env' = [env EXCEPT !.increment = increment, !.level = level]
    /\ UNCHANGED <<envGate, envOut, envHeld>>

\* renderScaled(gate, rate, adScale, releaseScale)
EnvRenderScaled(g, rate, adScale, releaseScale) ==
    /\ env' = RenderScaledEnv(env, g, rate, adScale, releaseScale)
    /\ envGate' = IF g THEN "on" ELSE "off"
    /\ envOut' = Value(env')
    /\ UNCHANGED envHeld

NextEnv ==
    \/ \E increment \in IncrementPresets, level \in LevelPresets :
          EnvSet(increment, level)
          /\ UNCHANGED <<patchVars, bankVars, genVars, dspVars>>
    \/ \E g \in BOOLEAN, rate \in Rates,
          adScale \in 1..MaxScale, releaseScale \in 1..MaxScale :
          EnvRenderScaled(g, rate, adScale, releaseScale)
          /\ UNCHANGED <<patchVars, bankVars, genVars, dspVars>>

\* One envelope, configured and rendered in any order.
SpecEnv == InitEnv /\ [][NextEnv]_vars

\* Levels set(increment, level) is called with by a caller that goes on to
\* hold the gate: LevelPresets, and the levels OperatorEnvelope.set computes
\* for L2 = 0, L3 = 30 under a full output level (0.0625 and 6.5), whose
\* stage N-2 ascends and ends below the reshape threshold.
HeldLevelPresets ==
    LevelPresets \cup
        { <<8 * LevelOne, LevelOne \div 16, (13 * LevelOne) \div 2,
            LevelOne \div 16>> }

\* The rate arguments of a voice that is running: the positive ones.
PositiveRates == Rates \ {0}

\* renderScaled(gate, rate, adScale, releaseScale) by a caller that from
\* this call on passes the same gate and a positive rate in every call.
EnvRenderHeld(g, rate, adScale, releaseScale) ==
    /\ envHeld \in {"free", IF g THEN "on" ELSE "off"}
    /\ rate > 0
    /\ env' = RenderScaledEnv(env, g, rate, adScale, releaseScale)
    /\ envGate' = IF g THEN "on" ELSE "off"
    /\ envOut' = Value(env')
    /\ envHeld' = IF g THEN "on" ELSE "off"

HeldStep ==
    \E g \in BOOLEAN, rate \in PositiveRates, scale \in 1..MaxScale :
       EnvRenderHeld(g, rate, scale, scale)
       /\ UNCHANGED <<patchVars, bankVars, genVars, dspVars>>

NextEnvHeld ==
    \/ \E increment \in IncrementPresets, level \in HeldLevelPresets :
          envGate = "none" /\ envHeld = "free" /\ EnvSet(increment, level)
          /\ UNCHANGED <<patchVars, bankVars, genVars, dspVars>>
    \/ \E g \in BOOLEAN, rate \in Rates :
          envHeld = "free" /\ EnvRenderScaled(g, rate, 1, 1)
          /\ UNCHANGED <<patchVars, bankVars, genVars, dspVars>>
    \/ HeldStep

\* One envelope, configured, rendered with any gates (at unit scales) and
\* then rendered with a constant gate, a positive rate and a positive
\* scale; the caller keeps calling while the gate is held.
SpecEnvHeld == InitEnv /\ [][NextEnvHeld]_vars /\ WF_vars(HeldStep)

\* ------------------------------------------------------------------
\* Callers of one Lfo: it is initialised, configured and reset as
\* generateSamples does before rendering, then set, reset and stepped in
\* any order.
\* ------------------------------------------------------------------

InitLfo ==
    /\ \E m \in LfoModulations : lfo = LfoAfterReset(LfoAfterSet(NewLfo, m))
    /\ lfoCall = [fn |-> "reset", arg |-> 0]
    /\ PatchIdle
    /\ BankIdle
    /\ GenIdle
    /\ EnvIdle
    /\ ChainIdle
    /\ SineIdle
    /\ AlgoIdle
    /\ VoiceIdle
    /\ PowIdle
    /\ UnitsIdle
    /\ TwinIdle

\* lfo.set(modulations)
LfoSet(m) ==
    /\ lfo' = LfoAfterSet(lfo, m)
    /\ lfoCall' = [fn |-> "set", arg |-> m.delay]

\* lfo.reset()
LfoReset ==
    /\ lfo' = LfoAfterReset(lfo)
    /\ lfoCall' = [fn |-> "reset", arg |-> 0]

\* lfo.step(scale)
LfoStep(scale) ==
    /\ \E random \in LfoRandoms : lfo' = LfoAfterStep(lfo, scale, random)
    /\ lfoCall' = [fn |-> "step", arg |-> scale]

\* Everything but the Lfo.
lfoOthers == <<patchVars, bankVars, genVars, envVars, chainVars, sineVars, algoVars, voiceVars, powVars, unitsVars,
      twinVars>>

NextLfo ==
    \/ \E m \in LfoModulations : LfoSet(m) /\ UNCHANGED lfoOthers
    \/ LfoReset /\ UNCHANGED lfoOthers
    \/ \E scale \in LfoScales : LfoStep(scale) /\ UNCHANGED lfoOthers

SpecLfo == InitLfo /\ [][NextLfo]_vars

\* ------------------------------------------------------------------
\* Callers of renderOperators: a chain of new operators rendered block
\* after block.
\* ------------------------------------------------------------------

InitChain ==
    /\ ops = [i \in 1..MaxChain |-> NewOperatorState]
    /\ fbState = <<0, 0>>
    /\ chainOut = <<>>
    /\ chainCall = [n |-> 0]
    /\ phaseRef = [i \in 1..MaxChain |-> <<0, 0, 0, 0>>]
    /\ chainBlocks = 0
    /\ chainTrace = NoTrace
    /\ PatchIdle
    /\ BankIdle
    /\ GenIdle
    /\ EnvIdle
    /\ LfoIdle
    /\ SineIdle
    /\ AlgoIdle
    /\ VoiceIdle
    /\ PowIdle
    /\ UnitsIdle
    /\ TwinIdle

\* One call of a renderer on the chain.
ChainRender(c) ==
    /\ chainBlocks < MaxBlocks
    /\ LET r == RenderOperators(ops, fbState, OutBuffer(c.size), c)
       IN /\ ops' = r.ops
          /\ fbState' = r.fbState
          /\ chainOut' = r.out
          /\ chainTrace' = r.trace
    /\ chainCall' = c
    /\ phaseRef' = [i \in 1..MaxChain |->
                      IF i <= c.n
                      THEN AddTimes(phaseRef[i], FrequencyWord(c.f[i]), c.size)
                      ELSE phaseRef[i]]
    /\ chainBlocks' = chainBlocks + 1

\* Everything but the chain.
chainOthers == <<patchVars, bankVars, genVars, envVars, lfoVars, sineVars, algoVars, voiceVars, powVars, unitsVars,
      twinVars>>

NextChain == \E c \in ChainCallPresets : ChainRender(c) /\ UNCHANGED chainOthers

SpecChain == InitChain /\ [][NextChain]_vars

\* ------------------------------------------------------------------
\* Callers of sinePm and sine: both are applied to a phase.
\* ------------------------------------------------------------------

InitSine ==
    /\ sinePhase \in SinePhases
    /\ sinePmIn \in SineModulations
    /\ sinePmOut = NoValue
    /\ sineOut = NoValue
    /\ PatchIdle
    /\ BankIdle
    /\ GenIdle
    /\ EnvIdle
    /\ LfoIdle
    /\ ChainIdle
    /\ AlgoIdle
    /\ VoiceIdle
    /\ PowIdle
    /\ UnitsIdle
    /\ TwinIdle

\* sinePm(phase, pm)
SinePmCall ==
    /\ sinePmOut = NoValue
    /\ sinePmOut' = SinePm(sinePhase, sinePmIn)
    /\ UNCHANGED <<sinePhase, sinePmIn, sineOut>>

\* sine(phase / 4294967296.0)
SineCall ==
    /\ sineOut = NoValue
    /\ sineOut' = Sine32(sinePhase)
    /\ UNCHANGED <<sinePhase, sinePmIn, sinePmOut>>

\* Everything but the two lookups.
sineOthers == <<patchVars, bankVars, genVars, envVars, lfoVars, chainVars, algoVars, voiceVars, powVars, unitsVars,
      twinVars>>

NextSine ==
    \/ SinePmCall /\ UNCHANGED sineOthers
    \/ SineCall /\ UNCHANGED sineOthers

SpecSine == InitSine /\ [][NextSine]_vars

\* ------------------------------------------------------------------
\* Callers of Algorithms: new Algorithms() compiles each algorithm, and
\* Voice.renderInternal walks the compiled calls of the patch's one.
\* ------------------------------------------------------------------

InitAlgo ==
    /\ algorithm \in 0..(NUM_ALGORITHMS - 1)
    /\ renderCalls = [i \in 1..NUM_OPERATORS |-> DefaultRenderCall]
    /\ compileAt = 0
    /\ dispatchAt = -1
    /\ visited = <<>>
    /\ PatchIdle
    /\ BankIdle
    /\ GenIdle
    /\ EnvIdle
    /\ LfoIdle
    /\ ChainIdle
    /\ SineIdle
    /\ VoiceIdle
    /\ PowIdle
    /\ UnitsIdle
    /\ TwinIdle

\* One round of the outer loop of compile(algorithm).
CompileChain ==
    /\ compileAt < NUM_OPERATORS
    /\ LET r == CompileAt(OPCODES_6[algorithm + 1], compileAt)
       IN /\ renderCalls' = IF r.stored
                            THEN [renderCalls EXCEPT ![compileAt + 1] = r.call]
                            ELSE renderCalls
          /\ compileAt' = compileAt + r.n
    /\ UNCHANGED <<algorithm, dispatchAt, visited>>

\* The dispatch loop of renderInternal starts at operator 0.
DispatchStart ==
    /\ compileAt >= NUM_OPERATORS
    /\ dispatchAt = -1
    /\ dispatchAt' = 0
    /\ UNCHANGED <<algorithm, renderCalls, compileAt, visited>>

\* One round of the dispatch loop: the call at operator i is made and the
\* loop advances by its chain length.
Dispatch ==
    /\ dispatchAt >= 0
    /\ dispatchAt < NUM_OPERATORS
    /\ Len(visited) < NUM_OPERATORS
    /\ LET call == renderCalls[dispatchAt + 1]
       IN /\ visited' = Append(visited, call)
          /\ dispatchAt' = dispatchAt + call.n
    /\ UNCHANGED <<algorithm, renderCalls, compileAt>>

\* Everything but the algorithm tables.
algoOthers ==
    <<patchVars, bankVars, genVars, envVars, lfoVars, chainVars, sineVars,
      voiceVars, powVars, unitsVars,
      twinVars>>

NextAlgo ==
    \/ CompileChain /\ UNCHANGED algoOthers
    \/ DispatchStart /\ UNCHANGED algoOthers
    \/ Dispatch /\ UNCHANGED algoOthers

SpecAlgo == InitAlgo /\ [][NextAlgo]_vars

\* compile and the dispatch loop are loops of sequential code: a round
\* that can run does run.
SpecAlgoLive == InitAlgo /\ [][NextAlgo]_vars /\ WF_vars(NextAlgo)

\* ------------------------------------------------------------------
\* Callers of one Voice: it is constructed on a patch; then setup and
\* render are called and its patch field is assigned, in any order.
\* ------------------------------------------------------------------

InitVoice ==
    /\ \E p \in VoicePatches : voice = NewVoice(p)
    /\ voiceCall = [fn |-> "new", result |-> FALSE]
    /\ voicePc = "constructing"
    /\ PatchIdle
    /\ BankIdle
    /\ GenIdle
    /\ EnvIdle
    /\ LfoIdle
    /\ ChainIdle
    /\ SineIdle
    /\ AlgoIdle
    /\ PowIdle
    /\ UnitsIdle
    /\ TwinIdle

\* voice.setup(): the call that ends the constructor, and any later one.
VoiceSetup ==
    /\ LET s == VoiceAfterSetup(voice)
       IN /\ voice' = s.voice
          /\ voiceCall' = [fn |-> "setup", result |-> s.result]
    /\ voicePc' = "ready"

\* voice.renderTemp(parameters, temp) / renderStereo: renderInternal
VoiceRender(parameters) ==
    /\ voicePc = "ready"
    /\ voice' = VoiceAfterRender(voice, parameters)
    /\ voiceCall' = [fn |-> "render", result |-> VoiceAfterSetup(voice).result,
                     parameters |-> parameters]
    /\ UNCHANGED voicePc

\* voice.patch = p: the patch of the voice is rebound.
VoiceRebind(p) ==
    /\ voicePc = "ready"
    /\ voice' = [voice EXCEPT !.patch = p]
    /\ voiceCall' = [fn |-> "rebind", result |-> FALSE]
    /\ UNCHANGED voicePc

\* Everything but the voice.
voiceOthers ==
    <<patchVars, bankVars, genVars, envVars, lfoVars, chainVars, sineVars,
      algoVars, powVars, unitsVars,
      twinVars>>

NextVoice ==
    \/ VoiceSetup /\ UNCHANGED voiceOthers
    \/ \E parameters \in VoiceParameters :
          VoiceRender(parameters) /\ UNCHANGED voiceOthers
    \/ \E p \in VoicePatches : VoiceRebind(p) /\ UNCHANGED voiceOthers

SpecVoice == InitVoice /\ [][NextVoice]_vars

\* ------------------------------------------------------------------
\* Callers of pow2Fast.
\* ------------------------------------------------------------------

InitPow ==
    /\ powX \in PowInputs
    /\ powOrder \in 1..3
    /\ powOut = NoValue
    /\ PatchIdle
    /\ BankIdle
    /\ GenIdle
    /\ EnvIdle
    /\ LfoIdle
    /\ ChainIdle
    /\ SineIdle
    /\ AlgoIdle
    /\ VoiceIdle
    /\ UnitsIdle
    /\ TwinIdle

\* pow2Fast(x, order)
Pow2FastCall ==
    /\ powOut = NoValue
    /\ powOut' = Pow2Fast(powX, powOrder)
    /\ UNCHANGED <<powX, powOrder>>

\* Everything but pow2Fast's argument and result.
powOthers ==
    <<patchVars, bankVars, genVars, envVars, lfoVars, chainVars, sineVars,
      algoVars, voiceVars, unitsVars, twinVars>>

NextPow == Pow2FastCall /\ UNCHANGED powOthers

SpecPow == InitPow /\ [][NextPow]_vars

\* ------------------------------------------------------------------
\* Callers of the LFO conversions of fm/dx_units.js: lfoFrequency and
\* lfoDelay on every rate and delay of a patch, 0..99.
\* ------------------------------------------------------------------

InitUnits ==
    /\ unitsCall = [fn |-> "none", arg |-> 0]
    /\ unitsOut = <<>>
    /\ PatchIdle
    /\ BankIdle
    /\ GenIdle
    /\ EnvIdle
    /\ LfoIdle
    /\ ChainIdle
    /\ SineIdle
    /\ AlgoIdle
    /\ VoiceIdle
    /\ PowIdle
    /\ TwinIdle

\* lfoFrequency(rate)
LfoFrequencyCall(rate) ==
    /\ unitsCall' = [fn |-> "lfoFrequency", arg |-> rate]
    /\ unitsOut' = <<LfoFrequency(rate)>>

\* lfoDelay(delay)
LfoDelayCall(delay) ==
    /\ unitsCall' = [fn |-> "lfoDelay", arg |-> delay]
    /\ unitsOut' = LfoDelay(delay)

\* Everything but the conversion called and its result.
unitsOthers ==
    <<patchVars, bankVars, genVars, envVars, lfoVars, chainVars, sineVars,
      algoVars, voiceVars, powVars, twinVars>>

NextUnits ==
    \/ \E rate \in 0..99 : LfoFrequencyCall(rate) /\ UNCHANGED unitsOthers
    \/ \E delay \in 0..99 : LfoDelayCall(delay) /\ UNCHANGED unitsOthers

SpecUnits == InitUnits /\ [][NextUnits]_vars







-----------------------------------------------------------------------------
(* Claims about the bank constructor (checked under SpecBank)               *)

\* C1: constructing a PatchBank succeeds iff the input has exactly 4104
\* bytes and starts with F0 43 00 09 20 00; any other length raises the
\* bank-length error (whatever the header), a length of 4104 with a wrong
\* byte among the first six raises the bank-header error, and in both error
\* cases no bank (hence no patch) is produced.
C1_BankAcceptedIffLengthAndHeader ==
    bankPc = "done" =>
        LET lengthOk == Len(bankIn) = 4104
            headerOk == Len(bankIn) >= 6
                        /\ SubSeq(bankIn, 1, 6) = <<240, 67, 0, 9, 32, 0>>
        IN /\ (bankErr = "none") <=> (lengthOk /\ headerOk)
           /\ ~lengthOk => bankErr = "BadBankLength"
           /\ (lengthOk /\ ~headerOk) => bankErr = "BadBankHeader"
           /\ (bankErr # "none") <=> (bank = NoBank)

\* A bank of the right length whose only fault is its sixth header byte was
\* refused with the bank-header error.
C1_Witness ==
    /\ bankPc = "done"
    /\ Len(bankIn) = 4104
    /\ SubSeq(bankIn, 1, 5) = <<240, 67, 0, 9, 32>>
    /\ bankIn[6] # 0
    /\ bankErr = "BadBankHeader"
    /\ bank = NoBank

\* C2: an accepted 4104-byte bank holds exactly 32 patches, patch k (from
\* 0) being the decode of bytes 6+128k .. 6+128(k+1)-1 and of nothing else:
\* the bank with its two trailing bytes (offsets 4102, 4103) replaced decodes
\* to the same patches.
C2_BankPatchesFromTheirBytes ==
    (bankPc = "done" /\ bankErr = "none") =>
        /\ Len(bank.patches) = 32
        /\ \A k \in 0..31 :
              bank.patches[k + 1] =
                  UnpackFields(SubSeq(bankIn, 6 + 128 * k + 1, 6 + 128 * (k + 1)))
        /\ \A t \in {0, 255} :
              PatchBankResult([bankIn EXCEPT ![4103] = t, ![4104] = t]).bank = bank

\* A bank with non-zero trailing bytes was accepted, and its last patch
\* differs from its first.
C2_Witness ==
    /\ bankPc = "done"
    /\ bankErr = "none"
    /\ bankIn[4103] # 0
    /\ bankIn[4104] # 0
    /\ bank.patches[32] # bank.patches[1]

-----------------------------------------------------------------------------
(* Claims about the voice decoder (checked under SpecPatch)                 *)

\* C3: Patch.unpack on data whose length is not 128 raises the voice-length
\* error and leaves every field of the patch as it was before the call, and
\* Patch.fromBytes on such data returns no patch.
C3_FailedUnpackChangesNothing ==
    [][ /\ (lastCall'.fn = "unpack" /\ Len(lastCall'.data) # 128) =>
              (patchErr' = "BadVoiceLength" /\ patch' = patch)
        /\ (lastCall'.fn = "fromBytes" /\ Len(lastCall'.data) # 128) =>
              (patchErr' = "BadVoiceLength" /\ made' = NoPatch) ]_vars

\* unpack failed on a patch that an earlier unpack had filled.
C3_Witness ==
    /\ lastCall.fn = "unpack"
    /\ Len(lastCall.data) = 127
    /\ patchErr = "BadVoiceLength"
    /\ patch = UnpackFields(voiceIn)
    /\ patch # NewPatch

GlobalsInRange(p) ==
    /\ p.algorithm \in 0..31
    /\ p.feedback \in 0..7
    /\ p.transpose \in 0..48
    /\ Len(p.name) = 10
    /\ \A i \in 1..10 : p.name[i] \in 0..127
    /\ Len(GetName(p)) <= 10

\* C4: every decoded patch has its algorithm in 0..31, feedback in 0..7,
\* transpose in 0..48 and a name of exactly 10 characters with codes 0..127,
\* of which getName returns at most 10.
C4_GlobalsInRange ==
    /\ GlobalsInRange(patch)
    /\ made # NoPatch => GlobalsInRange(made)

\* A voice whose transpose byte is 255 and whose algorithm byte has its high
\* bits set was decoded.
C4_Witness ==
    /\ lastCall.fn = "unpack"
    /\ patchErr = "none"
    /\ ByteAt(lastCall.data, 117) = 255
    /\ ByteAt(lastCall.data, 110) >= 32
    /\ patch.transpose = 48

OperatorInRange(o) ==
    /\ \A j \in 1..4 : o.envelope.rate[j] \in 0..99 /\ o.envelope.level[j] \in 0..99
    /\ o.keyboardScaling.breakPoint \in 0..99
    /\ o.keyboardScaling.leftDepth \in 0..99
    /\ o.keyboardScaling.rightDepth \in 0..99
    /\ o.keyboardScaling.leftCurve \in 0..3
    /\ o.keyboardScaling.rightCurve \in 0..3
    /\ o.rateScaling \in 0..7
    /\ o.ampModSensitivity \in 0..3
    /\ o.velocitySensitivity \in 0..7
    /\ o.level \in 0..99
    /\ o.fine \in 0..99
    /\ o.mode \in 0..1
    /\ o.coarse \in 0..31
    /\ o.detune \in 0..14

\* C5: every operator i (0..5) of a decoded patch has each field in its
\* documented range, and is decoded from bytes 17i .. 17i+16 of the voice.
C5_OperatorsInRange ==
    /\ \A i \in 1..6 : OperatorInRange(patch.op[i])
    /\ made # NoPatch => \A i \in 1..6 : OperatorInRange(made.op[i])
    /\ (lastCall.fn = "unpack" /\ patchErr = "none") =>
          \A i \in 0..5 :
              patch.op[i + 1] =
                  UnpackOperator(SubSeq(lastCall.data, 17 * i + 1, 17 * i + 17))

\* A voice was decoded in which the byte holding the detune and rate scaling
\* of operator 5 is 255: the detune 15 it encodes was clamped to 14.
C5_Witness ==
    /\ lastCall.fn = "unpack"
    /\ patchErr = "none"
    /\ ByteAt(lastCall.data, 17 * 5 + 12) = 255
    /\ patch.op[6].detune = 14
    /\ patch.op[6].rateScaling = 7

\* C6: for every value of voice byte 116 the decoded LFO fields are
\* reset-phase = bit 0, waveform = bits 1..3 clamped to 0..5 and pitch-mod
\* sensitivity = bits 4..6 only, hence in 0..7; LFO rate, delay, pitch-mod
\* depth and amp-mod depth are in 0..99.
C6_LfoFieldsFromByte116 ==
    (lastCall.fn = "unpack" /\ patchErr = "none") =>
        LET b == ByteAt(lastCall.data, 116)
            m == patch.modulations
        IN /\ m.resetPhase = b % 2
           /\ m.waveform = Min((b \div 2) % 8, 5)
           /\ m.pitchModSensitivity = (b \div 16) % 8
           /\ m.pitchModSensitivity \in 0..7
           /\ m.rate \in 0..99
           /\ m.delay \in 0..99
           /\ m.pitchModDepth \in 0..99
           /\ m.ampModDepth \in 0..99

-----------------------------------------------------------------------------
(* Claims about generateSamples (checked under SpecGen)                     *)

\* C7: the array generateSamples returns has at most 10 * sampleRate
\* samples, for every sample rate, duration and rendered signal.
C7_AtMostTenSeconds ==
    genPc = "returned" => Len(output) <= 10 * sampleRate

\* C8: when the release loop stops because of silence, the returned stream
\* ends with exactly floor(sampleRate * 100 / 1000) release samples below the
\* threshold, the sample before them, if it is a release sample, is not below
\* it, and what was cut are the further silent samples of the last block (at
\* most 24 of them).
C8_TruncatedToSilenceThreshold ==
    (genPc = "returned" /\ stop = "silence") =>
        LET d == (sampleRate * 100) \div 1000
            ns == (durationMs * sampleRate) \div 1000
            n == Len(output)
        IN /\ n >= ns + d
           /\ \A i \in (n - d + 1)..n : Abs(output[i]) < 10
           /\ n - d > ns => Abs(output[n - d]) >= 10
           /\ output = SubSeq(rendered, 1, n)
           /\ Len(rendered) - n <= 24
           /\ \A i \in (n + 1)..Len(rendered) : Abs(rendered[i]) < 10

\* The loop stopped on a silence that began in an earlier block, after loud
\* release samples, and cut silent samples off the last block.
C8_Witness ==
    /\ genPc = "returned"
    /\ stop = "silence"
    /\ SilenceDurationSamples(sampleRate) = 2
    /\ Len(rendered) > Len(output)
    /\ Len(rendered) - Len(output) < 24
    /\ Len(output) > NSamples(durationMs, sampleRate) + 24
    /\ Len(output) - 2 <= Len(rendered) - 24

\* The renderTemp calls among the calls cs, in order.
RenderCalls(cs) == SelectSeq(cs, LAMBDA c : c.fn = "renderTemp")

-----------------------------------------------------------------------------
(* Claims about the envelope (checked under SpecEnv)                        *)

\* C10 as stated: a renderScaled call moves the envelope out of its last
\* stage N-1 only when the gate passed to that call is false.
C10_LeavesLastStageOnlyUngated ==
    [][(env.stage = 4 - 1 /\ env'.stage # 4 - 1) => envGate' = "off"]_vars

\* C10, amended: a renderScaled call moves the envelope out of its last stage
\* N-1 only when the gate passed to that call is true (the trigger, to stage
\* 0 and onwards) and into stage N-1 only when that gate is false; a call
\* with gate false leaves an envelope in stage N-1 there.
C10_LeavesLastStageOnlyGated ==
    [][ /\ (env.stage = 4 - 1 /\ env'.stage # 4 - 1) => envGate' = "on"
        /\ (env.stage # 4 - 1 /\ env'.stage = 4 - 1) => envGate' = "off"
        /\ (env.stage = 4 - 1 /\ envGate' = "off") => env'.stage = 4 - 1 ]_vars

\* The envelope was released by a call without gate and then triggered out
\* of its last stage by a call with gate: it is in the middle of stage 0,
\* rising from the level snapshotted at the trigger.
C10_Witness ==
    /\ envGate = "on"
    /\ env.stage = 0
    /\ env.phase > 0
    /\ env.start # PREVIOUS_LEVEL
    /\ env.start # 0

\* C11: while gate stays true from one renderScaled call to the next, an
\* envelope that has reached the sustain stage N-2 stays in stage N-2 (it
\* neither enters stage N-1 nor restarts at stage 0), its phase does not go
\* back and does not exceed 1.0, and a phase that has reached 1.0 stays 1.0.
C11_SustainHeldWhileGated ==
    [][ (envGate = "on" /\ env.stage = NUM_STAGES - 2 /\ envGate' = "on")
        => /\ env'.stage = NUM_STAGES - 2
           /\ env'.phase >= env.phase
           /\ env'.phase <= PhaseOne
           /\ (env.phase = PhaseOne => env'.phase = PhaseOne) ]_vars

\* A gated call found the envelope in stage N-2 and saturated its phase.
C11_Witness ==
    /\ envGate = "on"
    /\ env.stage = NUM_STAGES - 2
    /\ env.phase = PhaseOne
    /\ env.start = PREVIOUS_LEVEL
    /\ env.increment[NUM_STAGES - 1] > 1

\* C12: the stage is always in 0..N-1 and the phase in [0,1]; after a call
\* with gate the stage is in 0..N-2, after a call without gate it is N-1;
\* and a call that triggers (gate, from stage N-1) or releases (no gate,
\* from another stage) starts from the value the envelope had before it,
\* unless the new stage ended within the same call.
C12_StageAndPhaseInRange ==
    [][ /\ env'.stage \in 0..(NUM_STAGES - 1)
        /\ env'.phase \in 0..PhaseOne
        /\ envGate' = "on" => env'.stage \in 0..(NUM_STAGES - 2)
        /\ envGate' = "off" => env'.stage = NUM_STAGES - 1
        /\ ( \/ (envGate' = "on" /\ env.stage = NUM_STAGES - 1)
             \/ (envGate' = "off" /\ env.stage # NUM_STAGES - 1) )
           => env'.start \in {Value(env), PREVIOUS_LEVEL} ]_vars

\* A call without gate released the envelope from the middle of a stage: it
\* is in the middle of stage N-1, falling from the snapshotted value.
C12_Witness ==
    /\ envGate = "off"
    /\ env.stage = NUM_STAGES - 1
    /\ env.phase \in 1..(PhaseOne - 1)
    /\ env.start > env.level[NUM_STAGES]
    /\ env.start # PREVIOUS_LEVEL

\* C13: a step of the LFO never lowers the delay phase and never takes it
\* above 1.0, a delay phase of 1.0 stays 1.0 until the next reset, no call
\* other than reset lowers it, and reset returns it to 0.
C13_DelayPhaseMonotoneAndSaturating ==
    [][ /\ lfoCall'.fn = "reset" => lfo'.delayPhase = 0
        /\ lfoCall'.fn # "reset"
           => /\ lfo'.delayPhase >= lfo.delayPhase
              /\ lfo'.delayPhase <= LfoOne
              /\ (lfo.delayPhase = LfoOne => lfo'.delayPhase = LfoOne) ]_vars

\* Steps took the delay phase through both halves of its ramp up to 1.0,
\* with a delay that needs many steps for it.
C13_Witness ==
    /\ lfoCall.fn = "step"
    /\ lfoCall.arg > 0
    /\ lfo.delayPhase = LfoOne
    /\ lfo.delayIncrement[1] * lfoCall.arg * 4 < LfoOne
    /\ lfo.phase > 0

\* C14: the phase committed to each operator is the unwrapped sum of its
\* initial phase and of all the increments applied to it, cut to 32 bits,
\* and is a 32-bit word.
C14_PhaseIsSumModulo32Bits ==
    \A i \in 1..MaxChain :
        /\ ops[i].phase = Truncate32(phaseRef[i])
        /\ ops[i].phase[1] \in 0..(Half - 1)
        /\ ops[i].phase[2] \in 0..(Half - 1)

\* An operator's increments have summed past 32 bits, with a carry out of
\* the low half on the way.
C14_Witness ==
    \E i \in 1..MaxChain :
        /\ phaseRef[i][2] > 0
        /\ ops[i].phase = Truncate32(phaseRef[i])
        /\ ops[i].phase[2] = 65534

\* C15: with no modulation sinePm reads the table where sine does: at the
\* entry given by the top 9 bits of the phase, with the other 23 bits as
\* the fraction, and returns the same value.
C15_UnmodulatedSinePmIsSine ==
    (sinePmIn = 0 /\ sinePmOut # NoValue /\ sineOut # NoValue)
    => /\ sinePmOut = sineOut
       /\ sinePmOut.integral = sinePhase[1] \div 128
       /\ sinePmOut.fractional = (sinePhase[1] % 128) * Half + sinePhase[2]
       /\ sinePmOut.fractional < PmOne

\* Both lookups were made, without modulation, on a phase whose fraction
\* uses both halves of the word.
C15_Witness ==
    /\ sinePmIn = 0
    /\ sinePmOut # NoValue
    /\ sineOut # NoValue
    /\ sinePhase = <<32767, 511>>
    /\ sinePmOut.fractional = 127 * Half + 511

\* The phase sinePm reads the table at, from what it returned.
LookupPhase(r) ==
    <<r.integral * 128 + r.fractional \div Half, r.fractional % Half>>

\* C16, as stated: sinePm reads the table at the phase plus the offset
\* (pm + 32) * 2^26 wrapped to 32 bits, and a modulation of 32 moves the
\* phase by half of the range.
C16_AddsOffsetOnce ==
    sinePmOut # NoValue
    => /\ LookupPhase(sinePmOut) = U32Add(sinePhase, PhaseOffset(sinePmIn))
       /\ sinePmIn = 32 * PmOne
          => LookupPhase(sinePmOut) = U32Add(sinePhase, <<32768, 0>>)

\* The fractional part of the modulation as a 32-bit phase.
CycleShift(pm) ==
    LET r == pm % PmOne
    IN <<r \div 128, (r % 128) * 512>>

\* C16, amended: sinePm reads the table at the phase plus 64 times the
\* wrapped offset (pm + 32) * 2^26, wrapped again, which is the phase moved
\* by the fractional part of pm in periods: a modulation of a half moves it
\* by half of the range, a modulation of 32 or any whole number leaves it
\* where it is, and the modulation wraps with period 64.
C16_AddsOffsetTimes64 ==
    sinePmOut # NoValue
    => /\ LookupPhase(sinePmOut) = U32Add(sinePhase, CycleShift(sinePmIn))
       /\ sinePmIn = PmOne \div 2
          => LookupPhase(sinePmOut) = U32Add(sinePhase, <<32768, 0>>)
       /\ sinePmIn % PmOne = 0 => LookupPhase(sinePmOut) = sinePhase
       /\ sinePmOut = SinePm(sinePhase, sinePmIn + 64 * PmOne)

\* sinePm was called with a modulation of 32 and read the table at the
\* phase it was given.
C16_Witness ==
    /\ sinePmIn = 32 * PmOne
    /\ sinePmOut # NoValue
    /\ sinePhase = <<16384, 1>>
    /\ sinePmOut.integral = 128

\* A call that adds into buffer 0, the OUTPUT buffer.
AddsToOutput(call) == call.outputIndex = 0 /\ call.renderFn.additive

\* C17: whatever the algorithm, no call the dispatch loop makes (and no
\* call compile stores) overwrites buffer 0, and once the loop has been
\* through the six operators at least one of its calls has added into
\* buffer 0.
C17_OutputWrittenAdditively ==
    /\ \A k \in 1..Len(visited) :
          visited[k].outputIndex = 0 => visited[k].renderFn.additive
    /\ \A i \in 1..NUM_OPERATORS :
          (renderCalls[i].n > 0 /\ renderCalls[i].outputIndex = 0)
          => renderCalls[i].renderFn.additive
    /\ dispatchAt >= NUM_OPERATORS
       => \E k \in 1..Len(visited) : AddsToOutput(visited[k])

\* The dispatch loop has been through algorithm 4 (index 3): a chain of
\* three operators with feedback that adds into OUTPUT, then a stack of
\* three single operators, the last of which adds into OUTPUT.
C17_Witness ==
    /\ algorithm = 3
    /\ dispatchAt = NUM_OPERATORS
    /\ Len(visited) = 4
    /\ visited[1].n = 3
    /\ AddsToOutput(visited[1])
    /\ ~AddsToOutput(visited[2])
    /\ AddsToOutput(visited[4])

\* C18: a setup() call that directly follows a setup() call changes no
\* field of the voice (envelope configuration, levelHeadroom, ratios and
\* dirty flag included) and returns false; and after any setup() call the
\* voice is not dirty.
C18_SetupIdempotent ==
    [][ /\ (voiceCall.fn = "setup" /\ voiceCall'.fn = "setup")
           => (voice' = voice /\ voiceCall'.result = FALSE)
        /\ voiceCall'.fn = "setup" => ~voice'.dirty ]_vars

\* setup() was called on a voice that a setup() call had left with the
\* quantities of a decoded patch, and reported that it did nothing.
C18_Witness ==
    /\ voiceCall = [fn |-> "setup", result |-> FALSE]
    /\ ~voice.dirty
    /\ voice.patch # NewPatch
    /\ voice.cache = Derived(voice.patch)
    /\ voice.cache # NoCache

\* C19: a voice whose patch was just rebound to a different patch is dirty,
\* and the cached quantities of a constructed voice that is not dirty are
\* those derived from the patch it is bound to.
C19_CacheFollowsBoundPatch ==
    voicePc = "ready"
    => /\ (voiceCall.fn = "rebind" /\ Derived(voice.patch) # voice.cache)
          => voice.dirty
       /\ ~voice.dirty => voice.cache = Derived(voice.patch)

\* C20: with order 2 or 3, pow2Fast takes floor(x) as the integral part,
\* for negative x too, and x - floor(x), which lies in [0, 1), as the
\* fractional part; the polynomial of its order is evaluated on that
\* fractional part and multiplied by 2^floor(x).
C20_SplitsAtFloor ==
    (powOut # NoValue /\ powOrder \in {2, 3})
    => /\ powOut.integral = Floor(powX)
       /\ powOut.fractional = powX - Floor(powX) * PowOne
       /\ powOut.fractional \in 0..(PowOne - 1)
       /\ powOut.factor = IF powOrder = 2 THEN Poly2(powX - Floor(powX) * PowOne)
                          ELSE Poly3(powX - Floor(powX) * PowOne)

\* ------------------------------------------------------------------
\* Two runs of one Lfo: both are initialised, configured and reset from
\* the same patch as generateSamples does, and then fed the same calls.
\* Each run's step draws its own values from getFloat(), whose generator
\* is no part of the Lfo.
\* ------------------------------------------------------------------

\* The patches of the two runs: those of rate 50, sample-and-hold among
\* them.
TwinModulations == {m \in LfoModulations : m.rate = 50}

InitTwin ==
    /\ \E m \in TwinModulations :
          /\ lfoA = LfoAfterReset(LfoAfterSet(NewLfo, m))
          /\ lfoB = LfoAfterReset(LfoAfterSet(NewLfo, m))
    /\ twinCall = [fn |-> "reset", arg |-> 0]
    /\ PatchIdle
    /\ BankIdle
    /\ GenIdle
    /\ EnvIdle
    /\ LfoIdle
    /\ ChainIdle
    /\ SineIdle
    /\ AlgoIdle
    /\ VoiceIdle
    /\ PowIdle
    /\ UnitsIdle

\* lfo.set(modulations) in both runs
TwinSet(m) ==
    /\ lfoA' = LfoAfterSet(lfoA, m)
    /\ lfoB' = LfoAfterSet(lfoB, m)
    /\ twinCall' = [fn |-> "set", arg |-> m.delay]

\* lfo.reset() in both runs
TwinReset ==
    /\ lfoA' = LfoAfterReset(lfoA)
    /\ lfoB' = LfoAfterReset(lfoB)
    /\ twinCall' = [fn |-> "reset", arg |-> 0]

\* lfo.step(scale) in both runs
TwinStep(scale) ==
    /\ \E random \in LfoRandoms : lfoA' = LfoAfterStep(lfoA, scale, random)
    /\ \E random \in LfoRandoms : lfoB' = LfoAfterStep(lfoB, scale, random)
    /\ twinCall' = [fn |-> "step", arg |-> scale]

\* Everything but the two runs.
twinOthers ==
    <<patchVars, bankVars, genVars, envVars, lfoVars, chainVars, sineVars,
      algoVars, voiceVars, powVars, unitsVars>>

NextTwin ==
    \/ \E m \in TwinModulations : TwinSet(m) /\ UNCHANGED twinOthers
    \/ TwinReset /\ UNCHANGED twinOthers
    \/ \E scale \in LfoScales : TwinStep(scale) /\ UNCHANGED twinOthers

SpecTwin == InitTwin /\ [][NextTwin]_vars

\* C21 as stated: lfoFrequency(0), divided by MIN_LFO_FREQUENCY and
\* multiplied by 11, is 1.
C21_RateZeroTimesElevenIsOne ==
    unitsCall = [fn |-> "lfoFrequency", arg |-> 0] => unitsOut[1] * 11 = 1

\* C21: lfoFrequency(0) is 11 times MIN_LFO_FREQUENCY, the scaled rate 1
\* of rate 0 times the factor 11 of the scaled rates below 160: divided by
\* MIN_LFO_FREQUENCY and by 11 it is 1.
C21_RateZeroOverElevenIsOne ==
    unitsCall = [fn |-> "lfoFrequency", arg |-> 0]
    => /\ unitsOut[1] % 11 = 0
       /\ unitsOut[1] \div 11 = 1

\* lfoFrequency was called on rate 0 and returned 11 units.
C21_Witness ==
    /\ unitsCall = [fn |-> "lfoFrequency", arg |-> 0]
    /\ unitsOut = <<11>>

\* C22: two runs that start from the same Lfo state and are fed the same
\* calls are in the same Lfo state after every call, so that the pitch and
\* amplitude modulation handed to the voice, and with them the samples,
\* are the same in both, whatever the waveform.
C22_RunsAgree == lfoA = lfoB

\* a lies between b and c, whichever of the two is the larger.
Between(a, b, c) == Min(b, c) <= a /\ a <= Max(b, c)

\* C23: the amplitude a call commits to each operator of its chain is the
\* smaller of the operator's target and 4.0, every sample of the block
\* used an amplitude between the one committed before the call and that
\* value, and no operator's amplitude is ever above 4.0.
C23_AmplitudeClampedBeforeSmoothing ==
    /\ \A i \in 1..MaxChain : ops[i].amplitude <= 4 * AmpOne
    /\ chainCall.n > 0
       => \A i \in 1..chainCall.n :
            /\ ops[i].amplitude = Min(chainCall.a[i], 4 * AmpOne)
            /\ Len(chainTrace.used[i]) = chainCall.size
            /\ \A k \in 1..chainCall.size :
                  Between(chainTrace.used[i][k], chainTrace.amplitude[i],
                          Min(chainCall.a[i], 4 * AmpOne))

\* A chain of three was rendered over four samples with a target of 8.0
\* for its last operator, which started from 0: it used 0, 1, 2 and 3 and
\* was left at 4.0.
C23_Witness ==
    /\ chainCall.n = 3
    /\ chainCall.a[3] = 8 * AmpOne
    /\ chainTrace.amplitude[3] = 0
    /\ chainTrace.used[3] = <<0, AmpOne, 2 * AmpOne, 3 * AmpOne>>
    /\ ops[3].amplitude = 4 * AmpOne

\* The feedback history a call's sample k starts from: the history the
\* call was handed, shifted once for each output the feedback source
\* operator has produced before sample k.
HistoryAt(k) ==
    LET first == chainTrace.fbState
        fed == chainTrace.fedOut
    IN IF k = 1 THEN first
       ELSE IF k = 2 THEN <<fed[1], first[1]>>
       ELSE <<fed[k - 1], fed[k - 2]>>

\* C24: a call whose modulation source is none (-1) or external (-2)
\* leaves the feedback history as it was; a call whose source is operator
\* k of the chain, over two samples or more, leaves the last output of
\* that operator in history[0] and the one before in history[1], and the
\* modulation every sample starts from is the sum of the history at that
\* sample times (1 << feedback) / 512, or 0 when feedback is 0.
C24_FeedbackHistory ==
    chainCall.n > 0
    => /\ chainCall.source < 0 => fbState = chainTrace.fbState
       /\ chainCall.source >= 0
          => /\ Len(chainTrace.fedOut) = chainCall.size
             /\ Len(chainTrace.seeds) = chainCall.size
             /\ chainCall.size >= 2
                => fbState = <<chainTrace.fedOut[chainCall.size],
                               chainTrace.fedOut[chainCall.size - 1]>>
             /\ \A k \in 1..chainCall.size :
                  chainTrace.seeds[k] =
                      IF chainCall.fbAmount = 0 THEN 0
                      ELSE (HistoryAt(k)[1] + HistoryAt(k)[2])
                               \div (512 \div 2 ^ chainCall.fbAmount)

\* A chain fed back from its second operator with feedback 6 was rendered
\* over two samples from a history that was not empty, and the operator's
\* two outputs differ.
C24_Witness ==
    /\ chainCall.n = 2
    /\ chainCall.source = 1
    /\ chainCall.fbAmount = 6
    /\ chainCall.size = 2
    /\ chainTrace.fbState # <<0, 0>>
    /\ chainTrace.seeds[1] # 0
    /\ chainTrace.fedOut[1] # chainTrace.fedOut[2]
    /\ fbState = <<chainTrace.fedOut[2], chainTrace.fedOut[1]>>

\* C25: a render call zeroes the operator phases exactly when its gate is
\* on, the gate of the block rendered before it was off and the patch has
\* resetPhase 1; it takes a new note or velocity only on such a rising
\* edge or under sustain.
C25_PhasesZeroedOnRisingEdgeOnly ==
    [][ (voiceCall'.fn = "render" /\ ~voiceCall'.result)
        => LET parameters == voiceCall'.parameters
               rising == parameters.gate /\ ~voice.gate
           IN /\ voice'.phaseReset
                 <=> (rising /\ voice.patch.resetPhase = 1)
              /\ ~(rising \/ parameters.sustain)
                 => /\ voice'.note = voice.note
                    /\ voice'.normalizedVelocity = voice.normalizedVelocity
      ]_vars

\* A block was rendered with the gate on after one with the gate off, on a
\* patch with resetPhase 1, and the phases were zeroed.
C25_Witness ==
    /\ voiceCall.fn = "render"
    /\ voice.gate
    /\ voice.patch.resetPhase = 1
    /\ voice.phaseReset
    /\ voice.envelopeGate = "on"

\* The operators a sequence of calls renders: the sum of their chain
\* lengths.
RECURSIVE OperatorsRendered(_)
OperatorsRendered(callSeq) ==
    IF callSeq = <<>> THEN 0
    ELSE Head(callSeq).n + OperatorsRendered(Tail(callSeq))

\* C26: whatever the algorithm, every call the dispatch loop visits has a
\* chain length of 1, 2 or 3 and the renderer of RENDERERS_6 for that
\* length, the loop stands at the sum of the lengths visited, which never
\* passes 6, and the loop ends, at 6: every operator rendered once.
C26_DispatchCoversSixOperators ==
    /\ [](/\ \A k \in 1..Len(visited) :
               /\ visited[k].n \in {1, 2, 3}
               /\ \E r \in 1..Len(RENDERERS_6) :
                     /\ RENDERERS_6[r] = visited[k].renderFn
                     /\ RENDERERS_6[r].n = visited[k].n
          /\ dispatchAt >= 0
             => /\ dispatchAt = OperatorsRendered(visited)
                /\ dispatchAt <= NUM_OPERATORS)
    /\ <>[](dispatchAt = NUM_OPERATORS)

\* The dispatch loop has been through algorithm 6 (index 5): a chain of
\* two operators, then four single ones.
C26_Witness ==
    /\ algorithm = 5
    /\ dispatchAt = NUM_OPERATORS
    /\ Len(visited) = 5
    /\ visited[1].n = 2
    /\ OperatorsRendered(visited) = NUM_OPERATORS

\* The call reads buffer b as its external modulation.
ReadsBuffer(call, b) ==
    call.renderFn.modulationSource = -2 /\ call.inputIndex = b

\* The call reads buffer b or writes it.
TouchesBuffer(call, b) == call.outputIndex = b \/ ReadsBuffer(call, b)

\* C27: whatever the algorithm, the first call of the block that reads or
\* writes modulation buffer 1 or 2 overwrites it and does not read it; so
\* every call that adds into such a buffer or reads it as its external
\* modulation comes after an overwrite made in the same block.
C27_ModulationBuffersOverwrittenFirst ==
    \A b \in {1, 2} :
        \A k \in 1..Len(visited) :
            (/\ TouchesBuffer(visited[k], b)
             /\ \A j \in 1..(k - 1) : ~TouchesBuffer(visited[j], b))
            => /\ visited[k].outputIndex = b
               /\ ~visited[k].renderFn.additive
               /\ ~ReadsBuffer(visited[k], b)

\* The dispatch loop has been through algorithm 16 (index 15), which uses
\* both modulation buffers: buffer 2 was overwritten, then read by a call
\* that added into buffer 1, which had been overwritten before.
C27_Witness ==
    /\ algorithm = 15
    /\ dispatchAt = NUM_OPERATORS
    /\ \E k \in 1..Len(visited) :
          /\ ReadsBuffer(visited[k], 2)
          /\ visited[k].outputIndex = 1
          /\ visited[k].renderFn.additive
          /\ \E j \in 1..(k - 1) :
                visited[j].outputIndex = 2 /\ ~visited[j].renderFn.additive

\* The calls of a sequence whose modulation source is an operator of
\* their own chain: the feedback.
FeedbackCalls(callSeq) ==
    {k \in 1..Len(callSeq) : callSeq[k].renderFn.modulationSource >= 0}

\* The operator (from 0) the k-th call of a sequence starts at.
StartOf(callSeq, k) == OperatorsRendered(SubSeq(callSeq, 1, k - 1))

\* C28: whatever the algorithm, at most one call of a block takes its
\* modulation from the feedback history, and exactly one once the loop
\* has been through the six operators; that call starts at the operator
\* whose opcode has the feedback source pattern, and the operator of its
\* chain that the renderer taps has the feedback-tap bit in its opcode.
C28_OneFeedbackCallPerBlock ==
    LET opcodes == OPCODES_6[algorithm + 1]
    IN /\ Cardinality(FeedbackCalls(visited)) <= 1
       /\ dispatchAt >= NUM_OPERATORS
          => Cardinality(FeedbackCalls(visited)) = 1
       /\ \A k \in FeedbackCalls(visited) :
             LET i == StartOf(visited, k)
             IN /\ SourceBits(opcodes[i + 1]) = SOURCE_FEEDBACK
                /\ visited[k].renderFn.modulationSource < visited[k].n
                /\ IsFeedbackSource(
                       opcodes[i + visited[k].renderFn.modulationSource + 1])
                /\ visited[k].inputIndex = 3

\* The dispatch loop has been through algorithm 4 (index 3), whose
\* feedback runs from the third operator back to the first: the one
\* feedback call is the chain of three, tapped at its last operator.
C28_Witness ==
    /\ algorithm = 3
    /\ dispatchAt = NUM_OPERATORS
    /\ FeedbackCalls(visited) = {1}
    /\ visited[1].n = 3
    /\ visited[1].renderFn.modulationSource = 2
    /\ ~IsFeedbackSource(OPCODES_6[4][1])
    /\ IsFeedbackSource(OPCODES_6[4][3])


\* ------------------------------------------------------------------
\* Envelope progress under a constant gate.
\* ------------------------------------------------------------------

\* The envelope rests at the end of stage k (numbered from 0).
RestsAt(k) == env.stage = k /\ env.phase = PhaseOne

\* What valueAt(k, 1.0, PREVIOUS_LEVEL) comes to: level[k], or for a
\* reshaped (ascending) segment the larger of level[k] and 6.7.
RestLevel(k) ==
    IF env.reshapeAscending /\ env.level[((k + NUM_STAGES - 1) % NUM_STAGES) + 1] < env.level[k + 1]
    THEN Max(env.level[k + 1], ReshapeFloor)
    ELSE env.level[k + 1]

\* A call moves the stage by the gate jump (to 0 on a trigger, to N-1 on a
\* release), by one step, or by the jump to 0 and one step.
StageStep ==
    \/ env'.stage \in {env.stage, env.stage + 1}
    \/ envGate' = "on" /\ env.stage = NUM_STAGES - 1 /\ env'.stage \in {0, 1}
    \/ envGate' = "off" /\ env.stage # NUM_STAGES - 1 /\ env'.stage = NUM_STAGES - 1

\* C29 as stated: with the gate held on (positive rate and scale) the
\* envelope eventually rests at the end of stage N-2 and returns level[N-2]
\* from then on; with the gate held off it eventually rests at the end of
\* stage N-1 and returns level[N-1] from then on; a call advances the stage
\* by at most one step apart from the gate jumps.
C29_RestsAtLevel ==
    /\ [](envHeld = "on" =>
            <>[](RestsAt(NUM_STAGES - 2) /\ envOut = env.level[NUM_STAGES - 1]))
    /\ [](envHeld = "off" =>
            <>[](RestsAt(NUM_STAGES - 1) /\ envOut = env.level[NUM_STAGES]))
    /\ [][StageStep]_vars

\* C29 (amended): the same progress, the value returned from then on
\* being valueAt(stage, 1.0): level[stage], except for a reshaping
\* envelope whose stage ascends, where it is max(level[stage], 6.7).
C29_RestsAtValueAtOne ==
    /\ [](envHeld = "on" =>
            <>[](RestsAt(NUM_STAGES - 2) /\ envOut = RestLevel(NUM_STAGES - 2)))
    /\ [](envHeld = "off" =>
            <>[](RestsAt(NUM_STAGES - 1) /\ envOut = RestLevel(NUM_STAGES - 1)))
    /\ [][StageStep]_vars

\* The gate is held on and a reshaping envelope rests at the end of an
\* ascending stage N-2 whose level is below 6.7: it returns 6.7.
C29_Witness ==
    /\ envHeld = "on"
    /\ RestsAt(NUM_STAGES - 2)
    /\ env.reshapeAscending
    /\ env.level[NUM_STAGES - 2] < env.level[NUM_STAGES - 1]
    /\ env.level[NUM_STAGES - 1] < ReshapeFloor
    /\ envOut = ReshapeFloor


\* ------------------------------------------------------------------
\* Termination of generateSamples.
\* ------------------------------------------------------------------

\* The number of renderTemp calls of cs made with the gate g.
RECURSIVE BlocksWith(_, _)
BlocksWith(cs, g) ==
    IF cs = <<>> THEN 0
    ELSE BlocksWith(Tail(cs), g)
         + (IF Head(cs).fn = "renderTemp" /\ Head(cs).gate = g THEN 1 ELSE 0)

\* ceil(n / d)
CeilDiv(n, d) == (n + d - 1) \div d

\* Once the gate-on loop is over it has run ceil(nSamples / 24) blocks.
GateOnLoopLength ==
    genPc # "gateOn" =>
        BlocksWith(calls, TRUE)
            = CeilDiv(NSamples(durationMs, sampleRate), MAX_BLOCK_SIZE)

\* The release loop goes round again only while the silence run is short
\* and the stream is no longer than 10 * sampleRate.
ReleaseLoopContinues ==
    (genPc = "release" /\ BlocksWith(calls, FALSE) > 0) =>
        /\ consecutiveSilentSamples < SilenceDurationSamples(sampleRate)
        /\ Len(output) <= 10 * sampleRate

\* The exits of the release loop: enough consecutive silent samples, or a
\* stream longer than 10 * sampleRate at the end of a block.
ReleaseLoopExit ==
    genPc = "returned" =>
        \/ stop = "silence"
              /\ consecutiveSilentSamples >= SilenceDurationSamples(sampleRate)
        \/ stop = "limit"
              /\ consecutiveSilentSamples < SilenceDurationSamples(sampleRate)
              /\ Len(output) > 10 * sampleRate

\* C30: generateSamples returns whatever the voice renders; the gate-on loop
\* ends after ceil(nSamples / 24) blocks, and the release loop ends when
\* floor(sampleRate * 100 / 1000) consecutive silent samples have been seen
\* or at the end of the first release block that leaves the stream longer
\* than 10 * sampleRate samples.
C30_GenerateSamplesTerminates ==
    /\ <>(genPc = "returned")
    /\ [](GateOnLoopLength /\ ReleaseLoopContinues /\ ReleaseLoopExit)

\* A voice that never falls silent, after a gate-on time of more than one
\* block: generateSamples has returned at the safety limit after several
\* release blocks.
C30_Witness ==
    /\ genPc = "returned"
    /\ stop = "limit"
    /\ ~voiceSignal.tailQuiet
    /\ BlocksWith(calls, TRUE) > 1
    /\ BlocksWith(calls, FALSE) > 1

====
